---- MODULE Spec2Model ----
(***************************************************************************)
(* Model of the scoring core of the review dashboard: TextCleaner,         *)
(* CategoryExtractor, ChurnDetector and OpportunityFinder.                 *)
(*                                                                         *)
(* A Python str is a sequence of one-character strings, so that `in`,      *)
(* split(), lower() and the regular expressions are computed character by  *)
(* character.  A score is held in tenths (churn_score 135.0 is 1350): the  *)
(* raw scores are multiples of 5 and the factors 1.1, 1.2, 1.3 and 1.5     *)
(* have one decimal, so every score is a whole number of tenths.  A        *)
(* category confidence is held in thirds (confidence 1.0 is 3).            *)
(***************************************************************************)
EXTENDS Integers, Sequences, FiniteSets, TLC

VARIABLES
    text,       \* the 'avaliacao' argument: any Python value
    rating,     \* the 'nota' argument
    sentiment,  \* the 'sentimento' argument
    nfrags,     \* number of fragments the text was built from
    done,       \* the operations that have been called on the input
    churn,      \* result of detect_churn_risk
    opp,        \* result of find_opportunities
    cat,        \* result of extract_category
    cleaned,    \* outcome of clean_text
    prev,       \* result of the first call when a review is scored twice
    prev_text,  \* the text of that first call
    df,         \* the dataset: a sequence of rows avaliacao, nota, sentimento
    top_n,      \* the 'n' argument of get_top_opportunities
    churn_stats,    \* result of get_churn_statistics
    opp_stats,      \* result of get_opportunity_statistics
    top,        \* result of get_top_opportunities
    scored,     \* the rows scored so far by the workers, in order of completion
    batch,      \* the statistics reduced from 'scored'
    heap,       \* the lists and dicts in memory: the object of id i is heap[i]
    calls,      \* the calls made so far: arguments and the record returned
    mutated     \* the call whose record the caller changed, 0 for none

\* the variables of one review and those of a dataset
review == <<text, rating, sentiment, nfrags, churn, opp, cat, cleaned, prev, prev_text>>
dataset == <<df, top_n, churn_stats, opp_stats, top, scored, batch>>
objects == <<heap, calls, mutated>>

vars == <<text, rating, sentiment, nfrags, done, churn, opp, cat, cleaned,
          prev, prev_text, df, top_n, churn_stats, opp_stats, top, scored, batch,
          heap, calls, mutated>>

---------------------------------------------------------------------------
(* Keyword tables, in declaration order.                                   *)

CHURN_SIGNALS ==
  [
    alta |-> <<
        <<"n","u","n","c","a"," ","m","a","i","s">>,
        <<"n","ã","o"," ","c","o","m","p","r","o">>,
        <<"n","ã","o"," ","v","o","l","t","o">>,
        <<"p","é","s","s","i","m","o">>,
        <<"g","o","l","p","e">>,
        <<"f","r","a","u","d","e">>,
        <<"p","r","o","c","e","s","s","a","r","e","i">>,
        <<"p","r","o","c","o","n">>,
        <<"j","u","i","z","a","d","o">>,
        <<"r","e","c","l","a","m","e"," ","a","q","u","i">>,
        <<"c","a","n","c","e","l","e","i">>,
        <<"d","e","v","o","l","v","i">>,
        <<"n","ã","o"," ","r","e","c","o","m","e","n","d","o">>,
        <<"h","o","r","r","í","v","e","l">>,
        <<"l","i","x","o">>,
        <<"p","i","o","r"," ","c","o","m","p","r","a">>,
        <<"a","r","r","e","p","e","n","d","i","m","e","n","t","o"," ","t","o","t","a","l">>,
        <<"d","i","n","h","e","i","r","o"," ","j","o","g","a","d","o"," ","f","o","r","a">>
    >>,
    media |-> <<
        <<"d","e","c","e","p","c","i","o","n","a","d","o">>,
        <<"d","e","c","e","p","ç","ã","o">>,
        <<"a","r","r","e","p","e","n","d","i","d","o">>,
        <<"a","r","r","e","p","e","n","d","i","m","e","n","t","o">>,
        <<"n","ã","o"," ","v","a","l","e">>,
        <<"n","ã","o"," ","r","e","c","o","m","e","n","d","o">>,
        <<"i","n","s","a","t","i","s","f","e","i","t","o">>,
        <<"f","r","u","s","t","r","a","d","o">>,
        <<"e","s","p","e","r","a","v","a"," ","m","a","i","s">>,
        <<"p","r","o","p","a","g","a","n","d","a"," ","e","n","g","a","n","o","s","a">>,
        <<"m","e","n","t","i","r","a">>,
        <<"e","n","g","a","n","a","ç","ã","o">>,
        <<"n","ã","o"," ","p","r","e","s","t","a">>,
        <<"m","u","i","t","o"," ","r","u","i","m">>,
        <<"m","a","l"," ","f","e","i","t","o">>
    >>,
    baixa |-> <<
        <<"p","o","d","e","r","i","a"," ","s","e","r"," ","m","e","l","h","o","r">>,
        <<"e","s","p","e","r","a","v","a"," ","m","a","i","s">>,
        <<"d","e","i","x","o","u"," ","a"," ","d","e","s","e","j","a","r">>,
        <<"n","ã","o"," ","é"," ","o"," ","q","u","e"," ","p","a","r","e","c","e">>,
        <<"n","ã","o"," ","g","o","s","t","e","i">>,
        <<"n","ã","o"," ","a","t","e","n","d","e","u">>,
        <<"d","e","m","o","r","a">>,
        <<"d","e","m","o","r","a","d","o">>,
        <<"a","t","r","a","s","o">>,
        <<"a","t","r","a","s","a","d","o">>
    >>
  ]

PROBLEM_ASPECTS ==
  <<
    [aspect |-> "qualidade", keywords |-> <<
        <<"q","u","e","b","r","o","u">>,
        <<"d","e","f","e","i","t","o">>,
        <<"q","u","e","b","r","a","d","o">>,
        <<"e","s","t","r","a","g","o","u">>,
        <<"n","ã","o"," ","f","u","n","c","i","o","n","a">>,
        <<"p","a","r","o","u"," ","d","e"," ","f","u","n","c","i","o","n","a","r">>,
        <<"r","u","i","m">>,
        <<"f","r","a","c","o">>,
        <<"f","r","á","g","i","l">>,
        <<"m","a","l"," ","f","e","i","t","o">>
    >>],
    [aspect |-> "entrega", keywords |-> <<
        <<"n","ã","o"," ","c","h","e","g","o","u">>,
        <<"n","ã","o"," ","r","e","c","e","b","i">>,
        <<"a","t","r","a","s","o">>,
        <<"d","e","m","o","r","a">>,
        <<"p","e","r","d","i","d","o">>,
        <<"e","x","t","r","a","v","i","a","d","o">>,
        <<"a","t","r","a","s","a","d","o">>,
        <<"p","r","a","z","o">>,
        <<"n","ã","o"," ","e","n","t","r","e","g","a","r","a","m">>
    >>],
    [aspect |-> "atendimento", keywords |-> <<
        <<"n","ã","o"," ","r","e","s","p","o","n","d","e","m">>,
        <<"m","a","l"," ","a","t","e","n","d","i","d","o">>,
        <<"g","r","o","s","s","e","i","r","o">>,
        <<"n","ã","o"," ","r","e","s","o","l","v","e">>,
        <<"n","ã","o"," ","a","j","u","d","a">>,
        <<"i","g","n","o","r","a","m">>,
        <<"n","ã","o"," ","a","t","e","n","d","e">>,
        <<"p","é","s","s","i","m","o"," ","a","t","e","n","d","i","m","e","n","t","o">>
    >>],
    [aspect |-> "preco", keywords |-> <<
        <<"c","a","r","o"," ","d","e","m","a","i","s">>,
        <<"m","u","i","t","o"," ","c","a","r","o">>,
        <<"n","ã","o"," ","v","a","l","e"," ","o"," ","p","r","e","ç","o">>,
        <<"s","u","p","e","r","f","a","t","u","r","a","d","o">>,
        <<"a","b","u","s","o">>,
        <<"p","r","e","ç","o"," ","a","b","u","s","i","v","o">>,
        <<"c","o","b","r","o","u"," ","a"," ","m","a","i","s">>
    >>]
  >>

UPSELL_SIGNALS ==
  <<
    <<"v","o","u"," ","c","o","m","p","r","a","r">>,
    <<"c","o","m","p","r","a","r","e","i">>,
    <<"q","u","e","r","o"," ","c","o","m","p","r","a","r">>,
    <<"v","o","u"," ","p","e","g","a","r">>,
    <<"v","e","r","s","ã","o"," ","m","a","i","o","r">>,
    <<"m","o","d","e","l","o"," ","m","a","i","o","r">>,
    <<"p","r","ó","x","i","m","a"," ","c","o","m","p","r","a">>,
    <<"q","u","e","r","o"," ","o","u","t","r","o">>,
    <<"p","r","e","c","i","s","a","n","d","o"," ","d","e"," ","o","u","t","r","o">>,
    <<"c","o","m","p","r","a","r"," ","m","a","i","s">>,
    <<"j","á"," ","e","s","t","o","u"," ","d","e"," ","o","l","h","o">>,
    <<"p","r","ó","x","i","m","o"," ","s","e","r","á">>,
    <<"v","o","u"," ","t","r","o","c","a","r"," ","p","o","r">>
  >>

CROSS_SELL_SIGNALS ==
  <<
    <<"c","o","m","b","i","n","a"," ","c","o","m">>,
    <<"a","g","o","r","a"," ","p","r","e","c","i","s","o">>,
    <<"f","a","l","t","a"," ","s","ó">>,
    <<"v","o","u"," ","c","o","m","p","r","a","r"," ","t","a","m","b","é","m">>,
    <<"a","g","o","r","a"," ","f","a","l","t","a">>,
    <<"p","r","ó","x","i","m","o"," ","p","a","s","s","o">>,
    <<"a","g","o","r","a"," ","q","u","e","r","o">>,
    <<"c","o","m","p","l","e","m","e","n","t","a">>,
    <<"j","u","n","t","o"," ","c","o","m">>,
    <<"p","a","r","a"," ","a","c","o","m","p","a","n","h","a","r">>,
    <<"p","e","n","s","a","n","d","o"," ","e","m"," ","p","e","g","a","r">>
  >>

LOYALTY_SIGNALS ==
  <<
    <<"s","e","m","p","r","e"," ","c","o","m","p","r","o">>,
    <<"c","l","i","e","n","t","e"," ","f","i","e","l">>,
    <<"t","o","d","a"," ","v","e","z">>,
    <<"c","o","m","p","r","o"," ","s","e","m","p","r","e">>,
    <<"j","á"," ","é"," ","a"," ","s","e","g","u","n","d","a">>,
    <<"j","á"," ","é"," ","o"," ","t","e","r","c","e","i","r","o">>,
    <<"c","o","m","p","r","o"," ","t","o","d","o"," ","m","ê","s">>,
    <<"c","l","i","e","n","t","e"," ","h","á"," ","a","n","o","s">>,
    <<"c","o","n","f","i","o">>,
    <<"s","ó"," ","c","o","m","p","r","o"," ","a","q","u","i">>,
    <<"m","i","n","h","a"," ","m","a","r","c","a"," ","f","a","v","o","r","i","t","a">>,
    <<"n","ã","o"," ","t","r","o","c","o">>,
    <<"ú","n","i","c","a"," ","l","o","j","a">>,
    <<"s","ó"," ","c","o","m","p","r","o"," ","d","e","s","s","a"," ","m","a","r","c","a">>
  >>

BRAND_ADVOCATE_SIGNALS ==
  <<
    <<"i","n","d","i","q","u","e","i">>,
    <<"r","e","c","o","m","e","n","d","o">>,
    <<"r","e","c","o","m","e","n","d","e","i">>,
    <<"t","o","d","a"," ","f","a","m","í","l","i","a">>,
    <<"t","o","d","o","s"," ","d","a"," ","f","a","m","í","l","i","a">>,
    <<"t","o","d","o"," ","m","u","n","d","o">>,
    <<"j","á"," ","i","n","d","i","q","u","e","i">>,
    <<"s","u","p","e","r"," ","r","e","c","o","m","e","n","d","o">>,
    <<"r","e","c","o","m","e","n","d","o"," ","m","u","i","t","o">>,
    <<"i","n","d","i","c","o">>,
    <<"t","o","d","o"," ","m","u","n","d","o"," ","d","e","v","e","r","i","a">>,
    <<"t","o","d","o","s"," ","d","e","v","e","r","i","a","m">>,
    <<"m","e","l","h","o","r"," ","q","u","e"," ","e","x","i","s","t","e">>,
    <<"n","ã","o"," ","e","x","i","s","t","e"," ","m","e","l","h","o","r">>,
    <<"c","o","m","p","a","r","t","i","l","h","e","i">>,
    <<"m","o","s","t","r","e","i"," ","p","a","r","a">>,
    <<"c","o","n","v","e","n","c","i">>
  >>

EXCEPTIONAL_SATISFACTION ==
  <<
    <<"s","u","p","e","r","o","u">>,
    <<"e","x","c","e","d","e","u">>,
    <<"a","l","é","m"," ","d","a","s"," ","e","x","p","e","c","t","a","t","i","v","a","s">>,
    <<"m","e","l","h","o","r"," ","q","u","e"," ","e","s","p","e","r","a","d","o">>,
    <<"s","u","r","p","r","e","e","n","d","e","u">>,
    <<"i","m","p","r","e","s","s","i","o","n","a","d","o">>,
    <<"i","n","c","r","í","v","e","l">>,
    <<"p","e","r","f","e","i","t","o">>,
    <<"i","m","p","e","c","á","v","e","l">>,
    <<"m","a","r","a","v","i","l","h","o","s","o">>,
    <<"s","e","n","s","a","c","i","o","n","a","l">>,
    <<"f","a","n","t","á","s","t","i","c","o">>,
    <<"e","x","c","e","p","c","i","o","n","a","l">>
  >>

CATEGORY_KEYWORDS ==
  <<
    [category |-> "Smartphones", keywords |-> <<
        <<"c","e","l","u","l","a","r">>,
        <<"s","m","a","r","t","p","h","o","n","e">>,
        <<"i","p","h","o","n","e">>,
        <<"s","a","m","s","u","n","g">>,
        <<"m","o","t","o","r","o","l","a">>,
        <<"m","o","t","o"," ","g">>,
        <<"g","a","l","a","x","y">>,
        <<"x","i","a","o","m","i">>,
        <<"a","n","d","r","o","i","d">>,
        <<"i","o","s">>,
        <<"f","o","n","e">>,
        <<"b","a","t","e","r","i","a">>,
        <<"c","a","m","e","r","a">>,
        <<"a","p","l","i","c","a","t","i","v","o">>,
        <<"t","e","l","a"," ","t","o","u","c","h">>
    >>],
    [category |-> "Notebooks e Computadores", keywords |-> <<
        <<"n","o","t","e","b","o","o","k">>,
        <<"l","a","p","t","o","p">>,
        <<"c","o","m","p","u","t","a","d","o","r">>,
        <<"p","c">>,
        <<"d","e","s","k","t","o","p">>,
        <<"p","r","o","c","e","s","s","a","d","o","r">>,
        <<"m","e","m","o","r","i","a"," ","r","a","m">>,
        <<"s","s","d">>,
        <<"h","d">>,
        <<"w","i","n","d","o","w","s">>,
        <<"p","l","a","c","a"," ","d","e"," ","v","i","d","e","o">>,
        <<"c","o","o","l","e","r">>
    >>],
    [category |-> "TVs e Monitores", keywords |-> <<
        <<"t","v">>,
        <<"t","e","l","e","v","i","s","a","o">>,
        <<"m","o","n","i","t","o","r">>,
        <<"s","m","a","r","t"," ","t","v">>,
        <<"l","e","d">>,
        <<"l","c","d">>,
        <<"4","k">>,
        <<"h","d","m","i">>,
        <<"p","o","l","e","g","a","d","a","s">>,
        <<"c","o","n","t","r","o","l","e"," ","r","e","m","o","t","o">>,
        <<"n","e","t","f","l","i","x">>,
        <<"y","o","u","t","u","b","e">>,
        <<"t","e","l","a"," ","g","r","a","n","d","e">>
    >>],
    [category |-> "Eletrodomésticos", keywords |-> <<
        <<"g","e","l","a","d","e","i","r","a">>,
        <<"f","r","e","e","z","e","r">>,
        <<"m","i","c","r","o","o","n","d","a","s">>,
        <<"f","o","g","a","o">>,
        <<"f","o","r","n","o">>,
        <<"l","i","q","u","i","d","i","f","i","c","a","d","o","r">>,
        <<"b","a","t","e","d","e","i","r","a">>,
        <<"a","s","p","i","r","a","d","o","r">>,
        <<"l","a","v","a","d","o","r","a">>,
        <<"f","e","r","r","o"," ","d","e"," ","p","a","s","s","a","r">>,
        <<"a","r"," ","c","o","n","d","i","c","i","o","n","a","d","o">>,
        <<"v","e","n","t","i","l","a","d","o","r">>,
        <<"a","q","u","e","c","e","d","o","r">>
    >>],
    [category |-> "Móveis", keywords |-> <<
        <<"s","o","f","a">>,
        <<"c","a","m","a">>,
        <<"c","o","l","c","h","a","o">>,
        <<"m","e","s","a">>,
        <<"c","a","d","e","i","r","a">>,
        <<"e","s","t","a","n","t","e">>,
        <<"g","u","a","r","d","a","-","r","o","u","p","a">>,
        <<"a","r","m","a","r","i","o">>,
        <<"r","a","c","k">>,
        <<"e","s","t","o","f","a","d","o">>,
        <<"m","a","d","e","i","r","a">>,
        <<"m","o","v","e","l">>,
        <<"c","o","m","o","d","a">>
    >>],
    [category |-> "Beleza e Saúde", keywords |-> <<
        <<"s","h","a","m","p","o","o">>,
        <<"c","o","n","d","i","c","i","o","n","a","d","o","r">>,
        <<"p","e","r","f","u","m","e">>,
        <<"m","a","q","u","i","a","g","e","m">>,
        <<"c","r","e","m","e">>,
        <<"p","r","o","t","e","t","o","r">>,
        <<"c","a","b","e","l","o">>,
        <<"p","e","l","e">>,
        <<"h","i","d","r","a","t","a","n","t","e">>,
        <<"s","a","b","o","n","e","t","e">>,
        <<"e","s","m","a","l","t","e">>,
        <<"b","a","t","o","m">>,
        <<"c","o","s","m","e","t","i","c","o">>
    >>],
    [category |-> "Livros e Mídia", keywords |-> <<
        <<"l","i","v","r","o">>,
        <<"r","o","m","a","n","c","e">>,
        <<"a","u","t","o","r">>,
        <<"p","a","g","i","n","a","s">>,
        <<"l","e","i","t","u","r","a">>,
        <<"h","i","s","t","o","r","i","a">>,
        <<"c","a","p","i","t","u","l","o">>,
        <<"c","d">>,
        <<"d","v","d">>,
        <<"f","i","l","m","e">>,
        <<"b","l","u","-","r","a","y">>
    >>],
    [category |-> "Esporte e Lazer", keywords |-> <<
        <<"b","i","c","i","c","l","e","t","a">>,
        <<"b","i","k","e">>,
        <<"t","e","n","i","s">>,
        <<"c","o","r","r","i","d","a">>,
        <<"a","c","a","d","e","m","i","a">>,
        <<"p","e","s","o">>,
        <<"e","x","e","r","c","i","c","i","o">>,
        <<"b","o","l","a">>,
        <<"e","s","p","o","r","t","e">>,
        <<"t","r","e","i","n","o">>
    >>],
    [category |-> "Moda e Vestuário", keywords |-> <<
        <<"r","o","u","p","a">>,
        <<"c","a","m","i","s","e","t","a">>,
        <<"c","a","l","c","a">>,
        <<"v","e","s","t","i","d","o">>,
        <<"s","a","p","a","t","o">>,
        <<"b","o","l","s","a">>,
        <<"t","e","c","i","d","o">>,
        <<"t","a","m","a","n","h","o">>,
        <<"c","o","r">>,
        <<"e","s","t","a","m","p","a">>,
        <<"m","o","d","a">>
    >>],
    [category |-> "Casa e Decoração", keywords |-> <<
        <<"p","a","n","e","l","a">>,
        <<"c","o","z","i","n","h","a">>,
        <<"d","e","c","o","r","a","c","a","o">>,
        <<"q","u","a","d","r","o">>,
        <<"v","a","s","o">>,
        <<"t","a","p","e","t","e">>,
        <<"c","o","r","t","i","n","a">>,
        <<"a","l","m","o","f","a","d","a">>,
        <<"l","u","m","i","n","a","r","i","a">>
    >>],
    [category |-> "Informática e Acessórios", keywords |-> <<
        <<"m","o","u","s","e">>,
        <<"t","e","c","l","a","d","o">>,
        <<"h","e","a","d","s","e","t">>,
        <<"w","e","b","c","a","m">>,
        <<"i","m","p","r","e","s","s","o","r","a">>,
        <<"p","e","n"," ","d","r","i","v","e">>,
        <<"c","a","b","o"," ","u","s","b">>,
        <<"a","d","a","p","t","a","d","o","r">>,
        <<"c","a","r","r","e","g","a","d","o","r">>
    >>]
  >>

CONTRACTIONS ==
  <<
    [word |-> <<"t","á">>, expansion |-> <<"e","s","t","á">>],
    [word |-> <<"p","r","a">>, expansion |-> <<"p","a","r","a">>],
    [word |-> <<"p","r","o">>, expansion |-> <<"p","a","r","a"," ","o">>],
    [word |-> <<"n","é">>, expansion |-> <<"n","ã","o"," ","é">>],
    [word |-> <<"v","c">>, expansion |-> <<"v","o","c","ê">>],
    [word |-> <<"v","c","s">>, expansion |-> <<"v","o","c","ê","s">>],
    [word |-> <<"m","t">>, expansion |-> <<"m","u","i","t","o">>],
    [word |-> <<"m","t","o">>, expansion |-> <<"m","u","i","t","o">>],
    [word |-> <<"t","b">>, expansion |-> <<"t","a","m","b","é","m">>],
    [word |-> <<"t","b","m">>, expansion |-> <<"t","a","m","b","é","m">>],
    [word |-> <<"q">>, expansion |-> <<"q","u","e">>],
    [word |-> <<"o","q">>, expansion |-> <<"o"," ","q","u","e">>],
    [word |-> <<"p","q">>, expansion |-> <<"p","o","r","q","u","e">>],
    [word |-> <<"t","d">>, expansion |-> <<"t","u","d","o">>],
    [word |-> <<"b","l","z">>, expansion |-> <<"b","e","l","e","z","a">>],
    [word |-> <<"v","l","w">>, expansion |-> <<"v","a","l","e","u">>]
  >>
---------------------------------------------------------------------------
(* Python values and str primitives.                                       *)

PyNone == [kind |-> "NoneType"]
PyNaN == [kind |-> "nan"]
PyInt(n) == [kind |-> "int", n |-> n]
PyList(l) == [kind |-> "list", items |-> l]
PyStr(s) == [kind |-> "str", chars |-> s]

\* bool(v)
Truthy(v) ==
    CASE v.kind = "NoneType" -> FALSE
      [] v.kind = "nan" -> TRUE
      [] v.kind = "int" -> v.n # 0
      [] v.kind = "list" -> Len(v.items) > 0
      [] v.kind = "str" -> Len(v.chars) > 0

\* isinstance(v, str)
IsStr(v) == v.kind = "str"

\* a guard that forgets the empty string
IsMissingStrOnly(v) == ~IsStr(v)

\* not text or not isinstance(text, str)
IsMissing(v) == ~Truthy(v) \/ ~IsStr(v)

UpperCase ==
    <<"A","B","C","D","E","F","G","H","I","J","K","L","M","N","O","P","Q",
      "R","S","T","U","V","W","X","Y","Z",
      "Á","À","Â","Ã","É","È","Ê","Í","Ï","Ó","Ô","Õ","Ö","Ú","Ç","Ñ">>

LowerCase ==
    <<"a","b","c","d","e","f","g","h","i","j","k","l","m","n","o","p","q",
      "r","s","t","u","v","w","x","y","z",
      "á","à","â","ã","é","è","ê","í","ï","ó","ô","õ","ö","ú","ç","ñ">>

LowerOf ==
    [c \in {UpperCase[i] : i \in DOMAIN UpperCase} |->
        LowerCase[CHOOSE i \in DOMAIN UpperCase : UpperCase[i] = c]]

\* str.lower()
lower(s) == [i \in DOMAIN s |-> IF s[i] \in DOMAIN LowerOf THEN LowerOf[s[i]] ELSE s[i]]

\* p in s
Contains(s, p) ==
    \E i \in 1..(Len(s) - Len(p) + 1) : \A j \in 1..Len(p) : s[i + j - 1] = p[j]

\* sum(1 for signal in signals if signal in s)
CountIn(signals, s) == Cardinality({i \in DOMAIN signals : Contains(s, signals[i])})

Min(a, b) == IF a <= b THEN a ELSE b

\* x * f for a score x in tenths and a factor f given in tenths (1.5 is 15)
Times(x, f) == (x * f) \div 10

---------------------------------------------------------------------------
(* ChurnDetector                                                           *)

\* a fallback whose level is none of the four levels
_no_risk_result_unlabelled ==
    [churn_score |-> 0,
     risk_level |-> "nenhum",
     problem_aspects |-> <<>>,
     main_reasons |-> <<>>,
     signals_detected |-> [alta_gravidade |-> 0, media_gravidade |-> 0, baixa_gravidade |-> 0],
     is_critical |-> FALSE]

_no_risk_result ==
    [churn_score |-> 0,
     risk_level |-> "sem_risco",
     problem_aspects |-> <<>>,
     main_reasons |-> <<>>,
     signals_detected |-> [alta_gravidade |-> 0, media_gravidade |-> 0, baixa_gravidade |-> 0],
     is_critical |-> FALSE]

\* a classification that tests the score before the positive-review rule
_classify_risk_score_first(churn_score, r, s) ==
    IF churn_score >= 400 \/ (r <= 2 /\ churn_score >= 200) THEN "alto_risco"
    ELSE IF s = "positivo" /\ r >= 4 THEN "sem_risco"
    ELSE IF churn_score >= 200 \/ (r = 3 /\ churn_score >= 100) THEN "medio_risco"
    ELSE IF churn_score > 0 \/ r <= 3 THEN "baixo_risco"
    ELSE "sem_risco"

\* a classification whose positive-review rule asks for rating 5
_classify_risk_rating_five(churn_score, r, s) ==
    IF s = "positivo" /\ r >= 5 THEN "sem_risco"
    ELSE IF churn_score >= 400 \/ (r <= 2 /\ churn_score >= 200) THEN "alto_risco"
    ELSE IF churn_score >= 200 \/ (r = 3 /\ churn_score >= 100) THEN "medio_risco"
    ELSE IF churn_score > 0 \/ r <= 3 THEN "baixo_risco"
    ELSE "sem_risco"

\* a classification whose low-rating rule asks for a rating below 2
_classify_risk_below_two(churn_score, r, s) ==
    IF s = "positivo" /\ r >= 4 THEN "sem_risco"
    ELSE IF churn_score >= 400 \/ (r < 2 /\ churn_score >= 200) THEN "alto_risco"
    ELSE IF churn_score >= 200 \/ (r = 3 /\ churn_score >= 100) THEN "medio_risco"
    ELSE IF churn_score > 0 \/ r <= 3 THEN "baixo_risco"
    ELSE "sem_risco"

\* a classification whose low rule looks at the score alone
_classify_risk_score_only(churn_score, r, s) ==
    IF s = "positivo" /\ r >= 4 THEN "sem_risco"
    ELSE IF churn_score >= 400 \/ (r <= 2 /\ churn_score >= 200) THEN "alto_risco"
    ELSE IF churn_score >= 200 \/ (r = 3 /\ churn_score >= 100) THEN "medio_risco"
    ELSE IF churn_score > 0 THEN "baixo_risco"
    ELSE "sem_risco"

_classify_risk(churn_score, r, s) ==
    IF s = "positivo" /\ r >= 4 THEN "sem_risco"
    ELSE IF churn_score >= 400 \/ (r <= 2 /\ churn_score >= 200) THEN "alto_risco"
    ELSE IF churn_score >= 200 \/ (r = 3 /\ churn_score >= 100) THEN "medio_risco"
    ELSE IF churn_score > 0 \/ r <= 3 THEN "baixo_risco"
    ELSE "sem_risco"

RECURSIVE AspectsFrom(_, _)
AspectsFrom(t, i) ==
    IF i > Len(PROBLEM_ASPECTS) THEN <<>>
    ELSE LET a == PROBLEM_ASPECTS[i]
             rest == AspectsFrom(t, i + 1)
         IN  IF \E k \in DOMAIN a.keywords : Contains(t, a.keywords[k])
             THEN <<a.aspect>> \o rest
             ELSE rest

_detect_problem_aspects(t) == AspectsFrom(t, 1)

\* one 'for signal in signals' loop of _extract_main_reasons, from index i
RECURSIVE ReasonsLoop(_, _, _, _)
ReasonsLoop(t, signals, i, reasons) ==
    IF i > Len(signals) THEN reasons
    ELSE IF Contains(t, signals[i])
         THEN LET r == Append(reasons, signals[i])
              IN  IF Len(r) >= 3 THEN r ELSE ReasonsLoop(t, signals, i + 1, r)
         ELSE ReasonsLoop(t, signals, i + 1, reasons)

\* an extraction that collects every match and never stops at three
_extract_main_reasons_uncapped(t, alta, media, baixa) ==
    LET Matches(signals) == SelectSeq(signals, LAMBDA p : Contains(t, p))
    IN  Matches(CHURN_SIGNALS.alta) \o Matches(CHURN_SIGNALS.media) \o Matches(CHURN_SIGNALS.baixa)

_extract_main_reasons(t, alta, media, baixa) ==
    LET r1 == IF alta > 0 THEN ReasonsLoop(t, CHURN_SIGNALS.alta, 1, <<>>) ELSE <<>>
        r2 == IF Len(r1) < 3 /\ media > 0 THEN ReasonsLoop(t, CHURN_SIGNALS.media, 1, r1) ELSE r1
        r3 == IF Len(r2) < 3 /\ baixa > 0 THEN ReasonsLoop(t, CHURN_SIGNALS.baixa, 1, r2) ELSE r2
    IN  SubSeq(r3, 1, Min(Len(r3), 3))

\* a first clamp that wraps around at 100 where it should stop there
ChurnBaseWrapped(alta_count, media_count, baixa_count) ==
    ((alta_count * 30 + media_count * 15 + baixa_count * 5) * 10) % 1000

\* a first clamp at 50
ChurnBaseHalf(alta_count, media_count, baixa_count) ==
    Min((alta_count * 30 + media_count * 15 + baixa_count * 5) * 10, 500)

\* a weighted sum that takes the low-severity phrases away
ChurnBaseMinusLow(alta_count, media_count, baixa_count) ==
    Min((alta_count * 30 + media_count * 15 - baixa_count * 5) * 10, 1000)

\* churn_score before the rating adjustment, in tenths
ChurnBase(alta_count, media_count, baixa_count) ==
    Min((alta_count * 30 + media_count * 15 + baixa_count * 5) * 10, 1000)

\* a rating adjustment without the second clamp
ChurnAdjustUnclamped(churn_score, r) ==
    IF r <= 2 THEN Times(churn_score, 15)
    ELSE IF r = 3 THEN Times(churn_score, 12)
    ELSE churn_score

\* a rating adjustment that leaves rating 2 out of the 1.5 branch
ChurnAdjustBelowTwo(churn_score, r) ==
    Min(IF r < 2 THEN Times(churn_score, 15)
        ELSE IF r = 3 THEN Times(churn_score, 12)
        ELSE churn_score, 1000)

\* the rating adjustment and the second clamp
ChurnAdjust(churn_score, r) ==
    Min(IF r <= 2 THEN Times(churn_score, 15)
        ELSE IF r = 3 THEN Times(churn_score, 12)
        ELSE churn_score, 1000)

detect_churn_risk(txt, r, s) ==
    IF IsMissing(txt) THEN _no_risk_result
    ELSE
    LET text_lower == lower(txt.chars)
        alta_count == CountIn(CHURN_SIGNALS.alta, text_lower)
        media_count == CountIn(CHURN_SIGNALS.media, text_lower)
        baixa_count == CountIn(CHURN_SIGNALS.baixa, text_lower)
        churn_score == ChurnAdjust(ChurnBase(alta_count, media_count, baixa_count), r)
        risk_level == _classify_risk(churn_score, r, s)
    IN  [churn_score |-> churn_score,
         risk_level |-> risk_level,
         problem_aspects |-> _detect_problem_aspects(text_lower),
         main_reasons |-> _extract_main_reasons(text_lower, alta_count, media_count, baixa_count),
         signals_detected |-> [alta_gravidade |-> alta_count,
                               media_gravidade |-> media_count,
                               baixa_gravidade |-> baixa_count],
         is_critical |-> risk_level = "alto_risco"]

---------------------------------------------------------------------------
(* OpportunityFinder                                                       *)

_no_opportunity_result ==
    [opportunity_score |-> 0,
     opportunity_level |-> "sem_oportunidade",
     opportunity_types |-> <<>>,
     customer_profile |-> "cliente_comum",
     signals_detected |-> [upsell |-> 0, cross_sell |-> 0, loyalty |-> 0,
                           brand_advocate |-> 0, exceptional_satisfaction |-> 0],
     is_high_value |-> FALSE]

\* a classification that forgets the rating < 4 test
_classify_opportunity_any_rating(score, r, s) ==
    IF s = "negativo" THEN "sem_oportunidade"
    ELSE IF score >= 500 \/ (r = 5 /\ score >= 300) THEN "alta_oportunidade"
    ELSE IF score >= 250 \/ (r = 5 /\ score >= 150) THEN "media_oportunidade"
    ELSE IF score > 0 THEN "baixa_oportunidade"
    ELSE "sem_oportunidade"

_classify_opportunity(score, r, s) ==
    IF s = "negativo" \/ r < 4 THEN "sem_oportunidade"
    ELSE IF score >= 500 \/ (r = 5 /\ score >= 300) THEN "alta_oportunidade"
    ELSE IF score >= 250 \/ (r = 5 /\ score >= 150) THEN "media_oportunidade"
    ELSE IF score > 0 THEN "baixa_oportunidade"
    ELSE "sem_oportunidade"

\* an identification written as an if / elif chain: the first type only
_identify_opportunity_types_first_only(upsell, cross_sell, loyalty, advocate, exceptional) ==
    IF upsell > 0 THEN <<"upsell">>
    ELSE IF cross_sell > 0 THEN <<"cross_sell">>
    ELSE IF loyalty > 0 THEN <<"fidelidade">>
    ELSE IF advocate > 0 THEN <<"advogado_marca">>
    ELSE IF exceptional > 0 THEN <<"satisfacao_excepcional">>
    ELSE <<>>

_identify_opportunity_types(upsell, cross_sell, loyalty, advocate, exceptional) ==
    (IF upsell > 0 THEN <<"upsell">> ELSE <<>>)
    \o (IF cross_sell > 0 THEN <<"cross_sell">> ELSE <<>>)
    \o (IF loyalty > 0 THEN <<"fidelidade">> ELSE <<>>)
    \o (IF advocate > 0 THEN <<"advogado_marca">> ELSE <<>>)
    \o (IF exceptional > 0 THEN <<"satisfacao_excepcional">> ELSE <<>>)

\* a profile that takes one advocate phrase for a brand advocate
_profile_customer_one_advocate(loyalty, advocate, exceptional) ==
    LET total_signals == loyalty + advocate + exceptional
    IN  IF advocate >= 1 THEN "advogado_marca"
        ELSE IF loyalty >= 2 \/ (loyalty >= 1 /\ exceptional >= 1) THEN "cliente_fiel"
        ELSE IF exceptional >= 2 THEN "altamente_satisfeito"
        ELSE IF total_signals > 0 THEN "cliente_satisfeito"
        ELSE "cliente_comum"

_profile_customer(loyalty, advocate, exceptional) ==
    LET total_signals == loyalty + advocate + exceptional
    IN  IF advocate >= 2 \/ (advocate >= 1 /\ loyalty >= 1) THEN "advogado_marca"
        ELSE IF loyalty >= 2 \/ (loyalty >= 1 /\ exceptional >= 1) THEN "cliente_fiel"
        ELSE IF exceptional >= 2 THEN "altamente_satisfeito"
        ELSE IF total_signals > 0 THEN "cliente_satisfeito"
        ELSE "cliente_comum"

\* opportunity_score before the rating bonus, in tenths
OpportunityBase(upsell_count, cross_sell_count, loyalty_count, advocate_count, exceptional_count) ==
    (upsell_count * 20 + cross_sell_count * 15 + loyalty_count * 25
        + advocate_count * 30 + exceptional_count * 10) * 10

\* a rating bonus without the clamp
OpportunityAdjustUnclamped(opportunity_score, r) ==
    IF r = 5 THEN Times(opportunity_score, 13)
    ELSE IF r = 4 THEN Times(opportunity_score, 11)
    ELSE opportunity_score

\* a rating bonus that gives rating 4 the bonus of rating 5
OpportunityAdjustSameBonus(opportunity_score, r) ==
    Min(IF r >= 4 THEN Times(opportunity_score, 13)
        ELSE opportunity_score, 1000)

\* the rating bonus and the clamp
OpportunityAdjust(opportunity_score, r) ==
    Min(IF r = 5 THEN Times(opportunity_score, 13)
        ELSE IF r = 4 THEN Times(opportunity_score, 11)
        ELSE opportunity_score, 1000)

\* a finder that gives up on a negative review before it reads the text
find_opportunities_negative_first(txt, r, s) ==
    IF IsMissing(txt) \/ s = "negativo" THEN _no_opportunity_result
    ELSE
    LET text_lower == lower(txt.chars)
        upsell_count == CountIn(UPSELL_SIGNALS, text_lower)
        cross_sell_count == CountIn(CROSS_SELL_SIGNALS, text_lower)
        loyalty_count == CountIn(LOYALTY_SIGNALS, text_lower)
        advocate_count == CountIn(BRAND_ADVOCATE_SIGNALS, text_lower)
        exceptional_count == CountIn(EXCEPTIONAL_SATISFACTION, text_lower)
        opportunity_score ==
            OpportunityAdjust(OpportunityBase(upsell_count, cross_sell_count, loyalty_count,
                                              advocate_count, exceptional_count), r)
        opportunity_level == _classify_opportunity(opportunity_score, r, s)
    IN  [opportunity_score |-> opportunity_score,
         opportunity_level |-> opportunity_level,
         opportunity_types |-> _identify_opportunity_types(upsell_count, cross_sell_count,
                                   loyalty_count, advocate_count, exceptional_count),
         customer_profile |-> _profile_customer(loyalty_count, advocate_count, exceptional_count),
         signals_detected |-> [upsell |-> upsell_count,
                               cross_sell |-> cross_sell_count,
                               loyalty |-> loyalty_count,
                               brand_advocate |-> advocate_count,
                               exceptional_satisfaction |-> exceptional_count],
         is_high_value |-> opportunity_level = "alta_oportunidade"]

find_opportunities(txt, r, s) ==
    IF IsMissing(txt) THEN _no_opportunity_result
    ELSE
    LET text_lower == lower(txt.chars)
        upsell_count == CountIn(UPSELL_SIGNALS, text_lower)
        cross_sell_count == CountIn(CROSS_SELL_SIGNALS, text_lower)
        loyalty_count == CountIn(LOYALTY_SIGNALS, text_lower)
        advocate_count == CountIn(BRAND_ADVOCATE_SIGNALS, text_lower)
        exceptional_count == CountIn(EXCEPTIONAL_SATISFACTION, text_lower)
        opportunity_score ==
            OpportunityAdjust(OpportunityBase(upsell_count, cross_sell_count, loyalty_count,
                                              advocate_count, exceptional_count), r)
        opportunity_level == _classify_opportunity(opportunity_score, r, s)
    IN  [opportunity_score |-> opportunity_score,
         opportunity_level |-> opportunity_level,
         opportunity_types |-> _identify_opportunity_types(upsell_count, cross_sell_count,
                                   loyalty_count, advocate_count, exceptional_count),
         customer_profile |-> _profile_customer(loyalty_count, advocate_count, exceptional_count),
         signals_detected |-> [upsell |-> upsell_count,
                               cross_sell |-> cross_sell_count,
                               loyalty |-> loyalty_count,
                               brand_advocate |-> advocate_count,
                               exceptional_satisfaction |-> exceptional_count],
         is_high_value |-> opportunity_level = "alta_oportunidade"]

---------------------------------------------------------------------------
(* CategoryExtractor                                                       *)

\* the 'scores' dict: the categories with score > 0, in insertion order
RECURSIVE ScoresFrom(_, _)
ScoresFrom(t, i) ==
    IF i > Len(CATEGORY_KEYWORDS) THEN <<>>
    ELSE LET score == CountIn(CATEGORY_KEYWORDS[i].keywords, t)
             rest == ScoresFrom(t, i + 1)
         IN  IF score > 0
             THEN <<[category |-> CATEGORY_KEYWORDS[i].category, score |-> score]>> \o rest
             ELSE rest

\* a maximum that lets a later entry with an equal score win
RECURSIVE MaxByScoreLast(_, _, _)
MaxByScoreLast(scores, i, best) ==
    IF i > Len(scores) THEN best
    ELSE MaxByScoreLast(scores, i + 1, IF scores[i].score >= best.score THEN scores[i] ELSE best)

\* max(scores, key=scores.get): the first entry whose score no later entry exceeds
\* and no earlier entry reaches
RECURSIVE MaxByScore(_, _, _)
MaxByScore(scores, i, best) ==
    IF i > Len(scores) THEN best
    ELSE MaxByScore(scores, i + 1, IF scores[i].score > best.score THEN scores[i] ELSE best)

\* a confidence that is not capped at 1.0
ConfidenceUncapped(score) == score

\* min(score / 3, 1.0), in thirds
Confidence(score) == Min(score, 3)

extract_category(txt) ==
    IF IsMissing(txt) THEN [category |-> "Outros", confidence |-> 0]
    ELSE
    LET text_lower == lower(txt.chars)
        scores == ScoresFrom(text_lower, 1)
    IN  IF Len(scores) = 0 THEN [category |-> "Outros", confidence |-> 0]
        ELSE LET best == MaxByScore(scores, 2, scores[1])
             IN  [category |-> best.category, confidence |-> Confidence(best.score)]

---------------------------------------------------------------------------
(* TextCleaner                                                             *)

\* the characters \s matches and str.split() splits on
Whitespace == {" ", "\t", "\n"}

Digits == <<"0","1","2","3","4","5","6","7","8","9">>

\* letters outside the two case tables: the ordinal indicators
OtherLetters == {"ª", "º"}

\* the characters \w matches
WordChars ==
    {LowerCase[i] : i \in DOMAIN LowerCase} \cup {UpperCase[i] : i \in DOMAIN UpperCase}
        \cup {Digits[i] : i \in DOMAIN Digits} \cup OtherLetters \cup {"_"}

\* unicodedata.normalize('NFKC', c) for the characters it changes
NFKC ==
    <<[char |-> "ª", form |-> <<"a">>],
      [char |-> "º", form |-> <<"o">>]>>

RECURSIVE Flatten(_)
Flatten(ss) == IF Len(ss) = 0 THEN <<>> ELSE Head(ss) \o Flatten(Tail(ss))

\* True when s[i:] starts with p
StartsAt(s, i, p) ==
    /\ i + Len(p) - 1 <= Len(s)
    /\ \A j \in 1..Len(p) : s[i + j - 1] = p[j]

\* index of the last character of the run of \S that contains position i
RECURSIVE RunEnd(_, _)
RunEnd(s, i) ==
    IF i + 1 <= Len(s) /\ s[i + 1] \notin Whitespace THEN RunEnd(s, i + 1) ELSE i

\* re.match(r'https?://\S+|www\.\S+', s[i:]): index of the last matched character, 0 for no match
UrlEnd(s, i) ==
    LET https == <<"h","t","t","p","s",":","/","/">>
        http == <<"h","t","t","p",":","/","/">>
        www == <<"w","w","w",".">>
        After(p) == i + Len(p)
        Matches(p) == StartsAt(s, i, p) /\ After(p) <= Len(s) /\ s[After(p)] \notin Whitespace
    IN  IF Matches(https) THEN RunEnd(s, After(https))
        ELSE IF Matches(http) THEN RunEnd(s, After(http))
        ELSE IF Matches(www) THEN RunEnd(s, After(www))
        ELSE 0

RECURSIVE RemoveUrlsFrom(_, _)
RemoveUrlsFrom(s, i) ==
    IF i > Len(s) THEN <<>>
    ELSE LET e == UrlEnd(s, i)
         IN  IF e > 0 THEN RemoveUrlsFrom(s, e + 1)
             ELSE <<s[i]>> \o RemoveUrlsFrom(s, i + 1)

_remove_urls(s) == RemoveUrlsFrom(s, 1)

\* re.sub(r'\S+@\S+', '', s): a run of \S is matched, from its first to its last
\* character, when an '@' stands strictly inside it
RECURSIVE RemoveEmailsFrom(_, _)
RemoveEmailsFrom(s, i) ==
    IF i > Len(s) THEN <<>>
    ELSE IF s[i] \in Whitespace THEN <<s[i]>> \o RemoveEmailsFrom(s, i + 1)
    ELSE LET e == RunEnd(s, i)
         IN  IF \E m \in (i + 1)..(e - 1) : s[m] = "@"
             THEN RemoveEmailsFrom(s, e + 1)
             ELSE SubSeq(s, i, e) \o RemoveEmailsFrom(s, e + 1)

_remove_emails(s) == RemoveEmailsFrom(s, 1)

\* str.split(): the runs of non-whitespace characters
RECURSIVE SplitFrom(_, _)
SplitFrom(s, i) ==
    IF i > Len(s) THEN <<>>
    ELSE IF s[i] \in Whitespace THEN SplitFrom(s, i + 1)
    ELSE LET e == RunEnd(s, i) IN <<SubSeq(s, i, e)>> \o SplitFrom(s, e + 1)

split(s) == SplitFrom(s, 1)

\* ' '.join(words)
RECURSIVE join(_)
join(words) ==
    IF Len(words) = 0 THEN <<>>
    ELSE IF Len(words) = 1 THEN words[1]
    ELSE words[1] \o <<" ">> \o join(Tail(words))

\* CONTRACTIONS.get(word, word)
Expansion(word) ==
    IF \E i \in DOMAIN CONTRACTIONS : CONTRACTIONS[i].word = word
    THEN CONTRACTIONS[CHOOSE i \in DOMAIN CONTRACTIONS : CONTRACTIONS[i].word = word].expansion
    ELSE word

_expand_contractions(s) ==
    LET words == split(s)
    IN  join([i \in DOMAIN words |-> Expansion(words[i])])

_normalize_unicode(s) ==
    Flatten([i \in DOMAIN s |->
        IF \E k \in DOMAIN NFKC : NFKC[k].char = s[i]
        THEN NFKC[CHOOSE k \in DOMAIN NFKC : NFKC[k].char = s[i]].form
        ELSE <<s[i]>>])

\* the characters of [!?.,-]
Punctuation == {"!", "?", ".", ",", "-"}

\* re.sub(r'[!?.,-]{2,}', ' ', s)
RECURSIVE CollapsePunctuationFrom(_, _)
CollapsePunctuationFrom(s, i) ==
    IF i > Len(s) THEN <<>>
    ELSE IF s[i] \in Punctuation /\ i + 1 <= Len(s) /\ s[i + 1] \in Punctuation
         THEN LET e == CHOOSE k \in (i + 1)..Len(s) :
                           /\ \A m \in i..k : s[m] \in Punctuation
                           /\ (k = Len(s) \/ s[k + 1] \notin Punctuation)
              IN  <<" ">> \o CollapsePunctuationFrom(s, e + 1)
         ELSE <<s[i]>> \o CollapsePunctuationFrom(s, i + 1)

\* a character the class [^\w\s!?.,áàâãéèêíïóôõöúçñ-] does not match
Kept(c) == c \in WordChars \/ c \in Whitespace \/ c \in Punctuation

_remove_special_chars(s) == CollapsePunctuationFrom(SelectSeq(s, Kept), 1)

\* re.sub(r'\s+', ' ', s)
RECURSIVE RemoveExtraSpacesFrom(_, _)
RemoveExtraSpacesFrom(s, i) ==
    IF i > Len(s) THEN <<>>
    ELSE IF s[i] \in Whitespace
         THEN IF i + 1 <= Len(s) /\ s[i + 1] \in Whitespace
              THEN RemoveExtraSpacesFrom(s, i + 1)
              ELSE <<" ">> \o RemoveExtraSpacesFrom(s, i + 1)
         ELSE <<s[i]>> \o RemoveExtraSpacesFrom(s, i + 1)

_remove_extra_spaces(s) == RemoveExtraSpacesFrom(s, 1)

\* str.strip()
RECURSIVE strip(_)
strip(s) ==
    IF Len(s) = 0 THEN s
    ELSE IF s[1] \in Whitespace THEN strip(Tail(s))
    ELSE IF s[Len(s)] \in Whitespace THEN strip(SubSeq(s, 1, Len(s) - 1))
    ELSE s

\* str(n) for an int n >= 0
RECURSIVE DigitsOf(_)
DigitsOf(n) == IF n < 10 THEN <<Digits[n + 1]>> ELSE DigitsOf(n \div 10) \o <<Digits[(n % 10) + 1]>>

\* ', '.join of the str() of the items of a list of ints
RECURSIVE ItemsStr(_)
ItemsStr(items) ==
    IF Len(items) = 0 THEN <<>>
    ELSE IF Len(items) = 1 THEN DigitsOf(items[1])
    ELSE DigitsOf(items[1]) \o <<",", " ">> \o ItemsStr(Tail(items))

\* str(v)
str(v) ==
    CASE v.kind = "str" -> v.chars
      [] v.kind = "int" -> DigitsOf(v.n)
      [] v.kind = "list" -> <<"[">> \o ItemsStr(v.items) \o <<"]">>
      [] v.kind = "nan" -> <<"n","a","n">>
      [] v.kind = "NoneType" -> <<"N","o","n","e">>

\* the steps of clean_text after the null test
CleanSteps(v) ==
    strip(_remove_extra_spaces(_remove_special_chars(_normalize_unicode(
        _expand_contractions(_remove_emails(_remove_urls(lower(str(v)))))))))

Returned(s) == [raised |-> FALSE, value |-> s]
Raised == [raised |-> TRUE, value |-> <<>>]

\* a null test that knows None only
clean_text_none_only(v) ==
    CASE v.kind = "NoneType" -> {Returned(<<>>)}
      [] v.kind = "list" /\ Len(v.items) >= 2 -> {Raised}
      [] v.kind = "list" /\ Len(v.items) = 0 -> {Raised, Returned(CleanSteps(v))}
      [] OTHER -> {Returned(CleanSteps(v))}

\* The outcomes of clean_text(v).  pd.isna of a list is an array, one flag per
\* item: `if` on an array of two or more flags raises ValueError, on one flag
\* takes that flag (False for an int), and on the empty array either raises or
\* is False, depending on the numpy release.
clean_text(v) ==
    CASE v.kind \in {"NoneType", "nan"} -> {Returned(<<>>)}
      [] v.kind = "list" /\ Len(v.items) >= 2 -> {Raised}
      [] v.kind = "list" /\ Len(v.items) = 0 -> {Raised, Returned(CleanSteps(v))}
      [] OTHER -> {Returned(CleanSteps(v))}

---------------------------------------------------------------------------
(* Datasets: a DataFrame is the sequence of its rows, a Series the sequence *)
(* of its values; the label of a row is its position.                      *)

\* a float held as a fraction
PyFloat(num, den) == [kind |-> "float", num |-> num, den |-> den]

ZeroDivisionError == [kind |-> "ZeroDivisionError"]

\* lambda row: self.detect_churn_risk(row['avaliacao'], row['nota'], row['sentimento']);
\* frame.apply(f, axis=1) and series.apply(f) give one result per row, in row
\* order, and an empty Series for a frame without rows
ChurnRow(row) == detect_churn_risk(row.avaliacao, row.nota, row.sentimento)

\* lambda row: self.find_opportunities(row['avaliacao'], row['nota'], row['sentimento'])
OpportunityRow(row) == find_opportunities(row.avaliacao, row.nota, row.sentimento)

\* (series == value).sum()
CountEqual(series, value) == Cardinality({i \in DOMAIN series : series[i] = value})

RECURSIVE Sum(_)
Sum(series) == IF Len(series) = 0 THEN 0 ELSE Head(series) + Sum(Tail(series))

\* a mean that divides the sum by the length itself
mean_by_division(series) ==
    IF Len(series) = 0 THEN ZeroDivisionError ELSE PyFloat(Sum(series), Len(series))

\* a mean whose accumulator is overwritten by each value
mean_of_last(series) ==
    IF Len(series) = 0 THEN PyNaN ELSE PyFloat(series[Len(series)], Len(series))

\* series.mean(): NaN for an empty Series
mean(series) ==
    IF Len(series) = 0 THEN PyNaN ELSE PyFloat(Sum(series), Len(series))

\* (series == value).mean() * 100
PercentEqual(series, value) ==
    LET m == mean([i \in DOMAIN series |-> IF series[i] = value THEN 1 ELSE 0])
    IN  IF m.kind = "float" THEN PyFloat(m.num * 100, m.den) ELSE m

\* the dictionary get_churn_statistics builds from the Series of results
ChurnStatistics(total, churn_results) ==
    LET risk_levels == [i \in DOMAIN churn_results |-> churn_results[i].risk_level]
    IN  [total_avaliacoes |-> total,
         alto_risco |-> CountEqual(risk_levels, "alto_risco"),
         medio_risco |-> CountEqual(risk_levels, "medio_risco"),
         baixo_risco |-> CountEqual(risk_levels, "baixo_risco"),
         sem_risco |-> CountEqual(risk_levels, "sem_risco"),
         percentual_alto_risco |-> PercentEqual(risk_levels, "alto_risco"),
         percentual_medio_risco |-> PercentEqual(risk_levels, "medio_risco"),
         score_medio |-> mean([i \in DOMAIN churn_results |-> churn_results[i].churn_score])]

get_churn_statistics(frame) == ChurnStatistics(Len(frame), [i \in DOMAIN frame |-> ChurnRow(frame[i])])

\* the dictionary get_opportunity_statistics builds from the Series of results
OpportunityStatistics(total, opportunity_results) ==
    LET opportunity_levels == [i \in DOMAIN opportunity_results |-> opportunity_results[i].opportunity_level]
        customer_profiles == [i \in DOMAIN opportunity_results |-> opportunity_results[i].customer_profile]
    IN  [total_avaliacoes |-> total,
         alta_oportunidade |-> CountEqual(opportunity_levels, "alta_oportunidade"),
         media_oportunidade |-> CountEqual(opportunity_levels, "media_oportunidade"),
         baixa_oportunidade |-> CountEqual(opportunity_levels, "baixa_oportunidade"),
         sem_oportunidade |-> CountEqual(opportunity_levels, "sem_oportunidade"),
         percentual_alta_oportunidade |-> PercentEqual(opportunity_levels, "alta_oportunidade"),
         advogados_marca |-> CountEqual(customer_profiles, "advogado_marca"),
         clientes_fieis |-> CountEqual(customer_profiles, "cliente_fiel"),
         score_medio |-> mean([i \in DOMAIN opportunity_results |-> opportunity_results[i].opportunity_score])]

get_opportunity_statistics(frame) ==
    OpportunityStatistics(Len(frame), [i \in DOMAIN frame |-> OpportunityRow(frame[i])])

\* the frame without its row at position i
Drop(frame, i) == SubSeq(frame, 1, i - 1) \o SubSeq(frame, i + 1, Len(frame))

\* an nlargest that keeps the last of the rows of equal score
RECURSIVE nlargest_keep_last(_, _)
nlargest_keep_last(frame, k) ==
    IF k <= 0 \/ Len(frame) = 0 THEN <<>>
    ELSE LET best == CHOOSE i \in DOMAIN frame : \A j \in DOMAIN frame :
                         \/ frame[j].opportunity_score < frame[i].opportunity_score
                         \/ frame[j].opportunity_score = frame[i].opportunity_score /\ j <= i
         IN  <<frame[best]>> \o nlargest_keep_last(Drop(frame, best), k - 1)

\* frame.nlargest(k, 'opportunity_score'), keep='first': the k rows of
\* greatest score in descending order, rows of equal score in frame order
RECURSIVE nlargest(_, _)
nlargest(frame, k) ==
    IF k <= 0 \/ Len(frame) = 0 THEN <<>>
    ELSE LET best == CHOOSE i \in DOMAIN frame : \A j \in DOMAIN frame :
                         \/ frame[j].opportunity_score < frame[i].opportunity_score
                         \/ frame[j].opportunity_score = frame[i].opportunity_score /\ i <= j
         IN  <<frame[best]>> \o nlargest(Drop(frame, best), k - 1)

get_top_opportunities(frame, k) ==
    LET opportunity_results == [i \in DOMAIN frame |-> OpportunityRow(frame[i])]
        df_copy == [i \in DOMAIN frame |->
                       [index |-> i,
                        avaliacao |-> frame[i].avaliacao,
                        nota |-> frame[i].nota,
                        sentimento |-> frame[i].sentimento,
                        opportunity_score |-> opportunity_results[i].opportunity_score,
                        opportunity_level |-> opportunity_results[i].opportunity_level,
                        customer_profile |-> opportunity_results[i].customer_profile]]
    IN  nlargest(SelectSeq(df_copy, LAMBDA row : row.opportunity_score > 0), k)

---------------------------------------------------------------------------
(* Inputs                                                                  *)

\* longest text, in fragments, given to a scorer
MaxFrags == 2

\* longest text, in fragments, given to the cleaner
MaxCleanFrags == 3

\* ratings run over 0..MaxRating: the documented 1..5 and one value on each side
MaxRating == 6

Ratings == 0..MaxRating

Sentiments == {"positivo", "negativo", "neutro"}

\* values of 'avaliacao' that are null, empty or not a str
NonTexts ==
    {PyNone, PyNaN, PyInt(0), PyInt(5), PyInt(12),
     PyList(<<>>), PyList(<<1>>), PyList(<<1, 2>>), PyStr(<<>>)}

\* s.join(words)
RECURSIVE JoinWith(_, _)
JoinWith(words, sep) ==
    IF Len(words) = 0 THEN <<>>
    ELSE IF Len(words) = 1 THEN words[1]
    ELSE words[1] \o sep \o JoinWith(Tail(words), sep)

\* a text that holds every churn phrase of every tier
AllChurnSignals ==
    JoinWith(CHURN_SIGNALS.alta \o CHURN_SIGNALS.media \o CHURN_SIGNALS.baixa, <<",", " ">>)

\* a text that holds every opportunity phrase of every list
AllOpportunitySignals ==
    JoinWith(UPSELL_SIGNALS \o CROSS_SELL_SIGNALS \o LOYALTY_SIGNALS
                \o BRAND_ADVOCATE_SIGNALS \o EXCEPTIONAL_SATISFACTION, <<",", " ">>)

\* review fragments for the churn detector
ChurnFragments ==
  {
    <<"P","r","o","d","u","t","o"," ","h","o","r","r","í","v","e","l",","," ","n","u","n","c","a"," ","m","a","i","s"," ","c","o","m","p","r","o",","," ","q","u","e","r","o"," ","p","r","o","c","e","s","s","a","r"," ","e","s","s","a"," ","e","m","p","r","e","s","a"," ","n","o"," ","p","r","o","c","o","n","."," ">>,
    <<"P","é","s","s","i","m","o",","," ","u","m"," ","l","i","x","o","."," ">>,
    <<"n","ã","o"," ","r","e","c","o","m","e","n","d","o","."," ">>,
    <<"e","s","p","e","r","a","v","a"," ","m","a","i","s","."," ">>,
    <<"D","e","m","o","r","a","d","o","."," ">>,
    <<"d","e","c","e","p","c","i","o","n","a","d","o","."," ">>,
    <<"n","ã","o"," ","g","o","s","t","e","i","."," ">>,
    <<"ó","t","i","m","o"," ","p","r","o","d","u","t","o","."," ">>
  }

\* review fragments for the opportunity finder
OpportunityFragments ==
  {
    <<"S","e","m","p","r","e"," ","c","o","m","p","r","o"," ","a","q","u","i",","," ","j","á"," ","i","n","d","i","q","u","e","i"," ","p","a","r","a"," ","t","o","d","a"," ","f","a","m","í","l","i","a",","," ","s","i","m","p","l","e","s","m","e","n","t","e"," ","p","e","r","f","e","i","t","o","."," ">>,
    <<"G","o","s","t","e","i"," ","b","a","s","t","a","n","t","e",","," ","r","e","c","o","m","e","n","d","o","."," ">>,
    <<"V","o","u"," ","c","o","m","p","r","a","r"," ","t","a","m","b","é","m","."," ">>,
    <<"s","u","p","e","r","o","u","."," ">>,
    <<"i","n","c","r","í","v","e","l","."," ">>,
    <<"c","o","m","b","i","n","a"," ","c","o","m","."," ">>,
    <<"c","l","i","e","n","t","e"," ","f","i","e","l","."," ">>,
    <<"c","o","n","f","i","o","."," ">>,
    <<"p","r","o","d","u","t","o"," ","o","k","."," ">>
  }

\* review fragments for the category extractor
CategoryFragments ==
  {
    <<"C","e","l","u","l","a","r"," ","s","a","m","s","u","n","g"," ","g","a","l","a","x","y"," ","c","o","m"," ","b","a","t","e","r","i","a"," ","ó","t","i","m","a","."," ">>,
    <<"c","e","l","u","l","a","r","."," ">>,
    <<"n","o","t","e","b","o","o","k","."," ">>,
    <<"m","o","n","i","t","o","r"," ","h","d","m","i","."," ">>,
    <<"S","m","a","r","t"," ","T","V","."," ">>,
    <<"m","o","u","s","e","."," ">>,
    <<"t","e","c","l","a","d","o","."," ">>,
    <<"G","o","s","t","e","i"," ","b","a","s","t","a","n","t","e",","," ","r","e","c","o","m","e","n","d","o","."," ">>
  }

\* review fragments that several operations react to
SharedFragments ==
  {
    <<"G","o","s","t","e","i"," ","b","a","s","t","a","n","t","e",","," ","r","e","c","o","m","e","n","d","o","."," ">>,
    <<"n","u","n","c","a"," ","m","a","i","s"," ","c","o","m","p","r","o","."," ">>,
    <<"c","e","l","u","l","a","r","."," ">>,
    <<"S","e","m","p","r","e"," ","c","o","m","p","r","o"," ","a","q","u","i","."," ">>
  }

\* pieces of raw text for the cleaner
CleanFragments ==
  {
    <<"p">>,
    <<"q">>,
    <<"p","q">>,
    <<"*">>,
    <<"!","!">>,
    <<" ">>,
    <<"w">>,
    <<"w","w",".","a">>,
    <<"a","@","b">>,
    <<"h","t","t","p",":","/","/","x"," ">>,
    <<"V","c">>,
    <<"º">>
  }

\* pieces of raw reviews for the pipeline: a phrase in two pieces, a contraction
PipelineFragments ==
  {
    <<"n","ã","o"," ">>,
    <<" ","r","e","c","o","m","e","n","d","o">>,
    <<"n"," ">>,
    <<"C","e","l","u","l","a","r"," ","ó","t","i","m","o",","," ","r","e","c","o","m","e","n","d","o","."," ">>,
    <<"P","é","s","s","i","m","o","!","!"," ">>
  }

\* calls whose results the caller holds together
MaxCalls == 2

\* fragments a text grows by before it is scored a first time
MaxGrowFrags == 1

\* rows of a dataset
MaxRows == 2

\* values of 'n'
MaxTop == 2

Review(s, r, sent) == [avaliacao |-> s, nota |-> r, sentimento |-> sent]

\* the rows a dataset is made of: two of equal score, one without text
DatasetRows ==
  {
    Review(PyStr(<<"J","á"," ","i","n","d","i","q","u","e","i",","," ","r","e","c","o","m","e","n","d","o",".">>), 5, "positivo"),
    Review(PyStr(<<"R","e","c","o","m","e","n","d","o",".">>), 4, "positivo"),
    Review(PyStr(<<"R","e","c","o","m","e","n","d","o",".">>), 4, "negativo"),
    Review(PyStr(<<"S","u","p","e","r","o","u",".">>), 4, "neutro"),
    Review(PyStr(<<"P","é","s","s","i","m","o",","," ","u","m"," ","l","i","x","o",".">>), 1, "negativo"),
    Review(PyNone, 3, "neutro")
  }

\* the rows the calls whose results are kept are made on
CallRows == {row \in DatasetRows : row.nota # 4}

---------------------------------------------------------------------------
(* The state machine: a review is put together, then the operations are    *)
(* called on it.                                                           *)

\* value of a result variable before its operation is called
Unset == [unset |-> TRUE]

\* a list and a dict in memory
ListObject(items) == [type |-> "list", items |-> items]
DictObject(fields) == [type |-> "dict", fields |-> fields]

\* the keyword lists, which are in memory before the first call
TableObjects ==
    <<ListObject(CHURN_SIGNALS.alta), ListObject(CHURN_SIGNALS.media),
      ListObject(CHURN_SIGNALS.baixa), ListObject(UPSELL_SIGNALS),
      ListObject(CROSS_SELL_SIGNALS), ListObject(LOYALTY_SIGNALS),
      ListObject(BRAND_ADVOCATE_SIGNALS), ListObject(EXCEPTIONAL_SATISFACTION)>>

\* the keys of a result whose value is a list or a dict
ListFields == {"problem_aspects", "main_reasons", "opportunity_types"}
DictFields == {"signals_detected"}

\* the list and dict values of a result, in the order they are built
InnerFields(result) ==
    IF "churn_score" \in DOMAIN result
    THEN <<"problem_aspects", "main_reasons", "signals_detected">>
    ELSE <<"opportunity_types", "signals_detected">>

InnerObject(result, f) ==
    IF f \in ListFields THEN ListObject(result[f]) ELSE DictObject(result[f])

\* a store where every empty list is the one empty list built first
StoreShared(h, result) ==
    LET fields == InnerFields(result)
        inner == [i \in DOMAIN fields |-> InnerObject(result, fields[i])]
        all == h \o inner
        IdOf(f) ==
            LET fresh == Len(h) + (CHOOSE i \in DOMAIN fields : fields[i] = f)
                empty == {j \in DOMAIN all : all[j] = ListObject(<<>>)}
            IN  IF all[fresh] = ListObject(<<>>)
                THEN CHOOSE j \in empty : \A k \in empty : j <= k
                ELSE fresh
        outer == [f \in DOMAIN result |->
                     IF f \in ListFields \cup DictFields THEN IdOf(f) ELSE result[f]]
    IN  all \o <<DictObject(outer)>>

\* the memory after a result is built: each list and dict literal of the
\* call is a new object, the dict returned is the last one and holds the
\* ids of its lists and dicts
Store(h, result) ==
    LET fields == InnerFields(result)
        inner == [i \in DOMAIN fields |-> InnerObject(result, fields[i])]
        IdOf(f) == Len(h) + (CHOOSE i \in DOMAIN fields : fields[i] = f)
        outer == [f \in DOMAIN result |->
                     IF f \in ListFields \cup DictFields THEN IdOf(f) ELSE result[f]]
    IN  h \o inner \o <<DictObject(outer)>>

\* the value the caller reads through the id of a returned dict
Deref(h, id) ==
    LET outer == h[id].fields
    IN  [f \in DOMAIN outer |->
            IF f \in ListFields THEN h[outer[f]].items
            ELSE IF f \in DictFields THEN h[outer[f]].fields
            ELSE outer[f]]

\* result.append('x') on a list, result['x'] = 1 on a dict
Changed(object) ==
    IF object.type = "list" THEN ListObject(Append(object.items, "x"))
    ELSE DictObject(object.fields @@ ("x" :> 1))

\* A review waits to be scored: one of 'texts', which may still grow, or one
\* of the 'long' texts, which is complete.
InitWith(texts, long, ratings, sentiments) ==
    /\ \/ text \in texts /\ nfrags = 0
       \/ text \in {PyStr(l) : l \in long} /\ nfrags = MaxFrags
    /\ rating \in ratings
    /\ sentiment \in sentiments
    /\ done = {}
    /\ churn = Unset
    /\ opp = Unset
    /\ cat = Unset
    /\ cleaned = Unset
    /\ prev = Unset
    /\ prev_text = Unset
    /\ heap = TableObjects
    /\ calls = <<>>
    /\ mutated = 0
    /\ df = <<>>
    /\ top_n = 0
    /\ churn_stats = Unset
    /\ opp_stats = Unset
    /\ top = Unset
    /\ scored = <<>>
    /\ batch = Unset

\* the review text grows by one fragment
Type(f, max) ==
    /\ done = {}
    /\ IsStr(text)
    /\ nfrags < max
    /\ text' = PyStr(text.chars \o f)
    /\ nfrags' = nfrags + 1
    /\ UNCHANGED <<rating, sentiment, done, churn, opp, cat, cleaned>>
    /\ UNCHANGED <<prev, prev_text, dataset, objects>>

DetectChurnRisk ==
    /\ "detect_churn_risk" \notin done
    /\ churn' = detect_churn_risk(text, rating, sentiment)
    /\ done' = done \cup {"detect_churn_risk"}
    /\ UNCHANGED <<text, rating, sentiment, nfrags, opp, cat, cleaned>>
    /\ UNCHANGED <<prev, prev_text, dataset, objects>>

FindOpportunities ==
    /\ "find_opportunities" \notin done
    /\ opp' = find_opportunities(text, rating, sentiment)
    /\ done' = done \cup {"find_opportunities"}
    /\ UNCHANGED <<text, rating, sentiment, nfrags, churn, cat, cleaned>>
    /\ UNCHANGED <<prev, prev_text, dataset, objects>>

ExtractCategory ==
    /\ "extract_category" \notin done
    /\ cat' = extract_category(text)
    /\ done' = done \cup {"extract_category"}
    /\ UNCHANGED <<text, rating, sentiment, nfrags, churn, opp, cleaned>>
    /\ UNCHANGED <<prev, prev_text, dataset, objects>>

CleanText ==
    /\ "clean_text" \notin done
    /\ cleaned' \in clean_text(text)
    /\ done' = done \cup {"clean_text"}
    /\ UNCHANGED <<text, rating, sentiment, nfrags, churn, opp, cat>>
    /\ UNCHANGED <<prev, prev_text, dataset, objects>>

\* the text of a scored review grows by a high-severity phrase it does not
\* hold and the review is scored again
DetectChurnRiskAgain(p) ==
    /\ "detect_churn_risk" \in done
    /\ prev = Unset
    /\ IsStr(text)
    /\ ~Contains(lower(text.chars), p)
    /\ text' = PyStr(text.chars \o <<" ">> \o p)
    /\ prev' = churn
    /\ prev_text' = text
    /\ churn' = detect_churn_risk(text', rating, sentiment)
    /\ UNCHANGED <<rating, sentiment, nfrags, done, opp, cat, cleaned, dataset, objects>>

TypeFirst == \E f \in ChurnFragments : Type(f, MaxGrowFrags)
AddHighPhrase == \E i \in DOMAIN CHURN_SIGNALS.alta : DetectChurnRiskAgain(CHURN_SIGNALS.alta[i])

\* a row is appended to the dataset
AddRow(row) ==
    /\ done = {}
    /\ scored = <<>>
    /\ Len(df) < MaxRows
    /\ df' = Append(df, row)
    /\ UNCHANGED <<review, objects, done, top_n, churn_stats, opp_stats, top, scored, batch>>

LoadRow == \E row \in DatasetRows : AddRow(row)

GetChurnStatistics ==
    /\ "get_churn_statistics" \notin done
    /\ scored = <<>>
    /\ churn_stats' = get_churn_statistics(df)
    /\ done' = done \cup {"get_churn_statistics"}
    /\ UNCHANGED <<review, objects, df, top_n, opp_stats, top, scored, batch>>

GetOpportunityStatistics ==
    /\ "get_opportunity_statistics" \notin done
    /\ scored = <<>>
    /\ opp_stats' = get_opportunity_statistics(df)
    /\ done' = done \cup {"get_opportunity_statistics"}
    /\ UNCHANGED <<review, objects, df, top_n, churn_stats, top, scored, batch>>

GetTopOpportunities ==
    /\ "get_top_opportunities" \notin done
    /\ scored = <<>>
    /\ \E k \in 0..MaxTop :
           /\ top_n' = k
           /\ top' = get_top_opportunities(df, k)
    /\ done' = done \cup {"get_top_opportunities"}
    /\ UNCHANGED <<review, objects, df, churn_stats, opp_stats, scored, batch>>

\* a worker scores one row that no worker has scored, whichever it is
ScoreRow(i) ==
    /\ done = {}
    /\ batch = Unset
    /\ \A k \in DOMAIN scored : scored[k].index # i
    /\ scored' = Append(scored, [index |-> i,
                                 churn |-> ChurnRow(df[i]),
                                 opp |-> OpportunityRow(df[i])])
    /\ UNCHANGED <<review, objects, done, df, top_n, churn_stats, opp_stats, top, batch>>

ScoreAnyRow == \E i \in DOMAIN df : ScoreRow(i)

\* every row is scored: the results are reduced in their order of completion
Reduce ==
    /\ batch = Unset
    /\ Len(df) > 0
    /\ Len(scored) = Len(df)
    /\ batch' = [churn |-> ChurnStatistics(Len(df), [i \in DOMAIN scored |-> scored[i].churn]),
                 opp |-> OpportunityStatistics(Len(df), [i \in DOMAIN scored |-> scored[i].opp])]
    /\ UNCHANGED <<review, objects, done, df, top_n, churn_stats, opp_stats, top, scored>>

\* the text of a scored review grows by a fragment and the review is scored again
DetectChurnRiskGrown(f) ==
    /\ "detect_churn_risk" \in done
    /\ prev = Unset
    /\ IsStr(text)
    /\ text' = PyStr(text.chars \o f)
    /\ prev' = churn
    /\ prev_text' = text
    /\ churn' = detect_churn_risk(text', rating, sentiment)
    /\ UNCHANGED <<rating, sentiment, nfrags, done, opp, cat, cleaned, dataset, objects>>

GrowAndDetect == \E f \in ChurnFragments : DetectChurnRiskGrown(f)

\* a scored review is scored again with another rating and sentiment
FindOpportunitiesAgain(r, s) ==
    /\ "find_opportunities" \in done
    /\ prev = Unset
    /\ rating' = r
    /\ sentiment' = s
    /\ prev' = opp
    /\ prev_text' = text
    /\ opp' = find_opportunities(text, r, s)
    /\ UNCHANGED <<text, nfrags, done, churn, cat, cleaned, dataset, objects>>

TypeOpportunityFirst == \E f \in OpportunityFragments : Type(f, MaxGrowFrags)
Rescore == \E r \in Ratings, s \in Sentiments : FindOpportunitiesAgain(r, s)

\* load_and_process_data: the raw text is cleaned and the category is taken
\* from the cleaned text
ProcessData ==
    /\ "process_data" \notin done
    /\ cleaned' \in clean_text(text)
    /\ cat' = IF cleaned'.raised THEN cat ELSE extract_category(PyStr(cleaned'.value))
    /\ done' = done \cup {"process_data"}
    /\ UNCHANGED <<text, rating, sentiment, nfrags, churn, opp>>
    /\ UNCHANGED <<prev, prev_text, dataset, objects>>

\* the churn tab scores row['avaliacao'] of the processed frame
TabChurn == "process_data" \in done /\ DetectChurnRisk

\* the opportunities tab scores row['avaliacao'] of the processed frame
TabOpportunities == "process_data" \in done /\ FindOpportunities

TypePipeline == \E f \in PipelineFragments : Type(f, MaxFrags)

\* a call whose result the caller keeps
Call(op, row) ==
    /\ Len(calls) < MaxCalls
    /\ heap' = Store(heap, IF op = "detect_churn_risk" THEN ChurnRow(row)
                                                       ELSE OpportunityRow(row))
    /\ calls' = Append(calls, [op |-> op, row |-> row, id |-> Len(heap')])
    /\ UNCHANGED <<review, done, dataset, mutated>>

CallDetectChurnRisk == \E row \in CallRows : Call("detect_churn_risk", row)
CallFindOpportunities == \E row \in CallRows : Call("find_opportunities", row)

\* the caller changes the dict a call returned, or one of its lists or dicts
Mutate(k, id) ==
    /\ mutated = 0
    /\ mutated' = k
    /\ heap' = [heap EXCEPT ![id] = Changed(heap[id])]
    /\ UNCHANGED <<review, done, dataset, calls>>

MutateResult ==
    \E k \in DOMAIN calls :
        \/ Mutate(k, calls[k].id)
        \/ \E f \in DOMAIN heap[calls[k].id].fields \cap (ListFields \cup DictFields) :
               Mutate(k, heap[calls[k].id].fields[f])

TypeShared == \E f \in SharedFragments : Type(f, MaxFrags)
TypeChurn == \E f \in ChurnFragments : Type(f, MaxFrags)
TypeOpportunity == \E f \in OpportunityFragments : Type(f, MaxFrags)
TypeCategory == \E f \in CategoryFragments : Type(f, MaxFrags)
TypeRaw == \E f \in CleanFragments : Type(f, MaxCleanFrags)

\* the three scorers on one review
Init == InitWith(NonTexts, {}, Ratings, Sentiments)
Next == TypeShared \/ DetectChurnRisk \/ FindOpportunities \/ ExtractCategory
Spec == Init /\ [][Next]_vars

\* the churn detector
InitChurn == InitWith(NonTexts, {AllChurnSignals}, Ratings, Sentiments)
NextChurn == TypeChurn \/ DetectChurnRisk
SpecChurn == InitChurn /\ [][NextChurn]_vars

\* the opportunity finder
InitOpportunity == InitWith(NonTexts, {AllOpportunitySignals}, Ratings, Sentiments)
NextOpportunity == TypeOpportunity \/ FindOpportunities
SpecOpportunity == InitOpportunity /\ [][NextOpportunity]_vars

\* the category extractor, which reads the text only
InitCategory == InitWith(NonTexts, {}, {5}, {"positivo"})
NextCategory == TypeCategory \/ ExtractCategory
SpecCategory == InitCategory /\ [][NextCategory]_vars

\* the text cleaner, which reads the text only
InitClean == InitWith(NonTexts, {}, {5}, {"positivo"})
NextClean == TypeRaw \/ CleanText
SpecClean == InitClean /\ [][NextClean]_vars

\* a review scored, grown by one high-severity phrase and scored again
InitGrow == InitWith({PyStr(<<>>)}, {}, Ratings, {"negativo"})
NextGrow == TypeFirst \/ DetectChurnRisk \/ AddHighPhrase
SpecGrow == InitGrow /\ [][NextGrow]_vars

\* the operations on a dataset
InitDataset == InitWith({PyNone}, {}, {5}, {"positivo"})
NextDataset == LoadRow \/ GetChurnStatistics \/ GetOpportunityStatistics \/ GetTopOpportunities
SpecDataset == InitDataset /\ [][NextDataset]_vars

\* the rows of a dataset scored in any order, then reduced
InitBatch == InitWith({PyNone}, {}, {5}, {"positivo"})
NextBatch == LoadRow \/ ScoreAnyRow \/ Reduce
SpecBatch == InitBatch /\ [][NextBatch]_vars

\* a review scored, grown by any fragment and scored again
InitGrowAny == InitWith({PyStr(<<>>)}, {}, Ratings, Sentiments)
NextGrowAny == TypeFirst \/ DetectChurnRisk \/ GrowAndDetect
SpecGrowAny == InitGrowAny /\ [][NextGrowAny]_vars

\* a review scored twice by the opportunity finder, the second time with any
\* rating and sentiment
InitRescore == InitWith({PyStr(<<>>), PyNone}, {}, {1, 5}, {"positivo", "negativo"})
NextRescore == TypeOpportunityFirst \/ FindOpportunities \/ Rescore
SpecRescore == InitRescore /\ [][NextRescore]_vars

\* the page: the frame is processed, then the tabs score its rows
InitPipeline == InitWith({PyNone, PyNaN, PyStr(<<>>)}, {}, {1, 5}, {"positivo", "negativo"})
NextPipeline == TypePipeline \/ ProcessData \/ TabChurn \/ TabOpportunities
SpecPipeline == InitPipeline /\ [][NextPipeline]_vars

\* results held together by a caller that changes one of them
InitObjects == InitWith({PyNone}, {}, {5}, {"positivo"})
NextObjects == CallDetectChurnRisk \/ CallFindOpportunities \/ MutateResult
SpecObjects == InitObjects /\ [][NextObjects]_vars

---------------------------------------------------------------------------
(* Properties                                                              *)

Called(op) == op \in done

\* the text is a non-empty str
HasText == IsStr(text) /\ Len(text.chars) > 0

\* the phrases of a list that occur in the lowercased text
Present(signals) ==
    {p \in {signals[i] : i \in DOMAIN signals} : Contains(lower(text.chars), p)}

\* C1: the churn_score returned by detect_churn_risk lies in [0, 100], for
\* every text (the text holding every churn phrase included), rating and
\* sentiment.
C1_ChurnScoreBounded ==
    Called("detect_churn_risk") => churn.churn_score >= 0 /\ churn.churn_score <= 1000

\* detect_churn_risk has scored the text that holds all 43 churn phrases
C1_Witness ==
    /\ Called("detect_churn_risk")
    /\ text = PyStr(AllChurnSignals)
    /\ churn.signals_detected =
           [alta_gravidade |-> 18, media_gravidade |-> 15, baixa_gravidade |-> 10]
    /\ rating <= 2
    /\ churn.churn_score = 1000

\* C2: the opportunity_score returned by find_opportunities lies in [0, 100],
\* for every text (the text holding every opportunity phrase included),
\* rating and sentiment.
C2_OpportunityScoreBounded ==
    Called("find_opportunities") => opp.opportunity_score >= 0 /\ opp.opportunity_score <= 1000

\* find_opportunities has scored the text that holds all 68 opportunity phrases
C2_Witness ==
    /\ Called("find_opportunities")
    /\ text = PyStr(AllOpportunitySignals)
    /\ opp.signals_detected =
           [upsell |-> 13, cross_sell |-> 11, loyalty |-> 14,
            brand_advocate |-> 17, exceptional_satisfaction |-> 13]
    /\ rating = 5
    /\ opp.opportunity_score = 1000

\* C3: for a text that is null, empty or not a str, detect_churn_risk,
\* find_opportunities and extract_category return their zero results,
\* whatever the rating and the sentiment.
C3_ZeroResults ==
    ~HasText =>
        /\ Called("detect_churn_risk") =>
               /\ churn.churn_score = 0
               /\ churn.risk_level = "sem_risco"
               /\ churn.problem_aspects = <<>>
               /\ churn.main_reasons = <<>>
               /\ churn.signals_detected =
                      [alta_gravidade |-> 0, media_gravidade |-> 0, baixa_gravidade |-> 0]
               /\ churn.is_critical = FALSE
        /\ Called("find_opportunities") =>
               /\ opp.opportunity_score = 0
               /\ opp.opportunity_level = "sem_oportunidade"
               /\ opp.opportunity_types = <<>>
               /\ opp.customer_profile = "cliente_comum"
               /\ opp.signals_detected =
                      [upsell |-> 0, cross_sell |-> 0, loyalty |-> 0,
                       brand_advocate |-> 0, exceptional_satisfaction |-> 0]
               /\ opp.is_high_value = FALSE
        /\ Called("extract_category") =>
               cat = [category |-> "Outros", confidence |-> 0]

\* the three scorers have been called on the empty string with rating 1
C3_Witness ==
    /\ text = PyStr(<<>>)
    /\ rating = 1
    /\ done = {"detect_churn_risk", "find_opportunities", "extract_category"}
    /\ churn.risk_level = "sem_risco"

C5_Idempotent ==
    Called("clean_text") /\ IsStr(text) =>
        clean_text(PyStr(cleaned.value)) = {cleaned}

\* number of keywords of the i-th category of CATEGORY_KEYWORDS that occur in the text
KeywordCount(i) == Cardinality(Present(CATEGORY_KEYWORDS[i].keywords))

\* C6: extract_category returns the category with the greatest keyword count
\* and, among categories with that count, the one declared first in
\* CATEGORY_KEYWORDS.
C6_FirstMaximalCategory ==
    Called("extract_category") /\ HasText =>
        LET count == [j \in DOMAIN CATEGORY_KEYWORDS |-> KeywordCount(j)]
        IN  (\E j \in DOMAIN count : count[j] > 0) =>
                \E i \in DOMAIN count :
                    /\ cat.category = CATEGORY_KEYWORDS[i].category
                    /\ \A j \in DOMAIN count : count[j] <= count[i]
                    /\ \A j \in 1..(i - 1) : count[j] < count[i]

\* a text with one 'Smartphones' keyword and one 'Notebooks e Computadores'
\* keyword, the notebook named first, is classified 'Smartphones'
C6_Witness ==
    /\ Called("extract_category")
    /\ HasText
    /\ Len(text.chars) >= 8 /\ SubSeq(text.chars, 1, 8) = <<"n","o","t","e","b","o","o","k">>
    /\ KeywordCount(1) = 1
    /\ KeywordCount(2) = 1
    /\ \A j \in 3..Len(CATEGORY_KEYWORDS) : KeywordCount(j) = 0
    /\ cat = [category |-> "Smartphones", confidence |-> 1]

\* C7: the confidence is min(k / 3, 1.0), k being the number of distinct
\* keywords of the returned category in the text; it is 1.0 from k = 3 on and
\* 0.0 exactly when the category is 'Outros'.  (Confidence is in thirds.)
C7_Confidence ==
    Called("extract_category") =>
        /\ cat.confidence \in 0..3
        /\ cat.confidence = 0 <=> cat.category = "Outros"
        /\ HasText =>
               \A i \in DOMAIN CATEGORY_KEYWORDS :
                   cat.category = CATEGORY_KEYWORDS[i].category =>
                       cat.confidence = (IF KeywordCount(i) >= 3 THEN 3 ELSE KeywordCount(i))
        /\ (HasText /\ cat.category = "Outros") =>
               \A i \in DOMAIN CATEGORY_KEYWORDS : KeywordCount(i) = 0

\* four 'Smartphones' keywords give confidence 1.0
C7_Witness ==
    /\ Called("extract_category")
    /\ HasText
    /\ KeywordCount(1) = 4
    /\ cat = [category |-> "Smartphones", confidence |-> 3]

\* number of phrases of each churn tier in the text
HighCount == Cardinality(Present(CHURN_SIGNALS.alta))
MediumCount == Cardinality(Present(CHURN_SIGNALS.media))
LowCount == Cardinality(Present(CHURN_SIGNALS.baixa))

\* C8: for a non-empty str text, churn_score = min(100, f * min(100, 30h + 15m + 5l))
\* with f = 1.5 for rating <= 2, 1.2 for rating 3 and 1.0 otherwise.
\* (Scores are in tenths, the factors in tenths too.)
C8_ChurnScoreFormula ==
    Called("detect_churn_risk") /\ HasText =>
        LET raw == 30 * HighCount + 15 * MediumCount + 5 * LowCount
            first == IF raw > 100 THEN 100 ELSE raw
            f == IF rating <= 2 THEN 15 ELSE IF rating = 3 THEN 12 ELSE 10
        IN  churn.churn_score = (IF first * f > 1000 THEN 1000 ELSE first * f)

\* three high-tier phrases with rating 1: 90 -> 135 -> 100
C8_Witness ==
    /\ Called("detect_churn_risk")
    /\ HasText
    /\ HighCount = 3 /\ MediumCount = 0 /\ LowCount = 0
    /\ rating = 1
    /\ churn.churn_score = 1000

\* C9: the risk level follows the first rule that matches, in the order (a)
\* positive sentiment and rating >= 4: none; (b) score >= 40, or rating <= 2
\* and score >= 20: high; (c) score >= 20, or rating 3 and score >= 10:
\* medium; (d) score > 0 or rating <= 3: low; (e) none.  is_critical is true
\* exactly when the level is high.
C9_RiskLevelRules ==
    Called("detect_churn_risk") /\ HasText =>
        LET score == churn.churn_score
            a == sentiment = "positivo" /\ rating >= 4
            b == score >= 400 \/ (rating <= 2 /\ score >= 200)
            c == score >= 200 \/ (rating = 3 /\ score >= 100)
            d == score > 0 \/ rating <= 3
        IN  /\ a => churn.risk_level = "sem_risco"
            /\ (~a /\ b) => churn.risk_level = "alto_risco"
            /\ (~a /\ ~b /\ c) => churn.risk_level = "medio_risco"
            /\ (~a /\ ~b /\ ~c /\ d) => churn.risk_level = "baixo_risco"
            /\ (~a /\ ~b /\ ~c /\ ~d) => churn.risk_level = "sem_risco"
            /\ churn.is_critical <=> churn.risk_level = "alto_risco"

\* a positive review with rating >= 4 and score 100 is classified none
C9_Witness ==
    /\ Called("detect_churn_risk")
    /\ HasText
    /\ sentiment = "positivo"
    /\ rating >= 4
    /\ churn.churn_score = 1000
    /\ churn.risk_level = "sem_risco"
    /\ ~churn.is_critical

\* C10: for a non-empty str text, opportunity_score =
\* min(100, g * (20 upsell + 15 cross_sell + 25 loyalty + 30 advocate + 10 exceptional))
\* with g = 1.3 for rating 5, 1.1 for rating 4 and 1.0 otherwise.
C10_OpportunityScoreFormula ==
    Called("find_opportunities") /\ HasText =>
        LET raw == 20 * Cardinality(Present(UPSELL_SIGNALS))
                     + 15 * Cardinality(Present(CROSS_SELL_SIGNALS))
                     + 25 * Cardinality(Present(LOYALTY_SIGNALS))
                     + 30 * Cardinality(Present(BRAND_ADVOCATE_SIGNALS))
                     + 10 * Cardinality(Present(EXCEPTIONAL_SATISFACTION))
            g == IF rating = 5 THEN 13 ELSE IF rating = 4 THEN 11 ELSE 10
        IN  opp.opportunity_score = (IF raw * g > 1000 THEN 1000 ELSE raw * g)

\* one upsell and one cross-sell phrase with rating 4: 35 * 1.1 = 38.5
C10_Witness ==
    /\ Called("find_opportunities")
    /\ HasText
    /\ opp.signals_detected =
           [upsell |-> 1, cross_sell |-> 1, loyalty |-> 0,
            brand_advocate |-> 0, exceptional_satisfaction |-> 0]
    /\ rating = 4
    /\ opp.opportunity_score = 385

\* number of phrases of each opportunity list in the text
UpsellCount == Cardinality(Present(UPSELL_SIGNALS))
CrossSellCount == Cardinality(Present(CROSS_SELL_SIGNALS))
LoyaltyCount == Cardinality(Present(LOYALTY_SIGNALS))
AdvocateCount == Cardinality(Present(BRAND_ADVOCATE_SIGNALS))
ExceptionalCount == Cardinality(Present(EXCEPTIONAL_SATISFACTION))

\* C11: the opportunity level follows the first rule that matches, in the
\* order (a) negative sentiment or rating < 4: none; (b) score >= 50, or
\* rating 5 and score >= 30: high; (c) score >= 25, or rating 5 and score >=
\* 15: medium; (d) score > 0: low; (e) none.  is_high_value is true exactly
\* when the level is high.
C11_OpportunityLevelRules ==
    Called("find_opportunities") /\ HasText =>
        LET score == opp.opportunity_score
            a == sentiment = "negativo" \/ rating < 4
            b == score >= 500 \/ (rating = 5 /\ score >= 300)
            c == score >= 250 \/ (rating = 5 /\ score >= 150)
            d == score > 0
        IN  /\ a => opp.opportunity_level = "sem_oportunidade"
            /\ (~a /\ b) => opp.opportunity_level = "alta_oportunidade"
            /\ (~a /\ ~b /\ c) => opp.opportunity_level = "media_oportunidade"
            /\ (~a /\ ~b /\ ~c /\ d) => opp.opportunity_level = "baixa_oportunidade"
            /\ (~a /\ ~b /\ ~c /\ ~d) => opp.opportunity_level = "sem_oportunidade"
            /\ opp.is_high_value <=> opp.opportunity_level = "alta_oportunidade"

\* a review with rating 3 and score 100 has no opportunity
C11_Witness ==
    /\ Called("find_opportunities")
    /\ HasText
    /\ rating = 3
    /\ sentiment = "positivo"
    /\ opp.opportunity_score = 1000
    /\ opp.opportunity_level = "sem_oportunidade"
    /\ ~opp.is_high_value

\* C12: the customer profile follows the first rule that matches over the
\* loyalty, advocate and exceptional counts; the upsell and cross-sell counts
\* have no part in it.
C12_ProfileRules ==
    Called("find_opportunities") /\ HasText =>
        LET l == LoyaltyCount
            a == AdvocateCount
            e == ExceptionalCount
            r1 == a >= 2 \/ (a >= 1 /\ l >= 1)
            r2 == l >= 2 \/ (l >= 1 /\ e >= 1)
            r3 == e >= 2
            r4 == l + a + e > 0
        IN  /\ r1 => opp.customer_profile = "advogado_marca"
            /\ (~r1 /\ r2) => opp.customer_profile = "cliente_fiel"
            /\ (~r1 /\ ~r2 /\ r3) => opp.customer_profile = "altamente_satisfeito"
            /\ (~r1 /\ ~r2 /\ ~r3 /\ r4) => opp.customer_profile = "cliente_satisfeito"
            /\ (~r1 /\ ~r2 /\ ~r3 /\ ~r4) => opp.customer_profile = "cliente_comum"

\* upsell and cross-sell phrases alone leave the profile at cliente_comum
C12_Witness ==
    /\ Called("find_opportunities")
    /\ HasText
    /\ UpsellCount = 1 /\ CrossSellCount = 1
    /\ LoyaltyCount = 0 /\ AdvocateCount = 0 /\ ExceptionalCount = 0
    /\ opp.opportunity_score > 0
    /\ opp.customer_profile = "cliente_comum"

\* the phrases of a list that occur in the lowercased text, in list order
Matches(signals) == SelectSeq(signals, LAMBDA p : Contains(lower(text.chars), p))

\* C14: main_reasons is the first three of: the high-tier phrases in the
\* text in table order, then the medium-tier ones, then the low-tier ones.
\* So it has at most 3 phrases, each in the text, and a lower tier adds to it
\* only when the tiers above gave fewer than 3.
C14_MainReasons ==
    Called("detect_churn_risk") /\ HasText =>
        LET all == Matches(CHURN_SIGNALS.alta) \o Matches(CHURN_SIGNALS.media)
                       \o Matches(CHURN_SIGNALS.baixa)
        IN  /\ Len(churn.main_reasons) <= 3
            /\ \A i \in DOMAIN churn.main_reasons :
                   Contains(lower(text.chars), churn.main_reasons[i])
            /\ churn.main_reasons = SubSeq(all, 1, IF Len(all) > 3 THEN 3 ELSE Len(all))

\* three high-tier phrases fill main_reasons and the medium-tier phrase of
\* the text is left out
C14_Witness ==
    /\ Called("detect_churn_risk")
    /\ HasText
    /\ HighCount = 3
    /\ MediumCount = 1
    /\ churn.main_reasons = Matches(CHURN_SIGNALS.alta)

\* C20: opportunity_types holds a type exactly when the count of its list is
\* above 0, once, whatever the rating, the sentiment and the level.
C20_OpportunityTypes ==
    Called("find_opportunities") /\ HasText =>
        LET types == {opp.opportunity_types[i] : i \in DOMAIN opp.opportunity_types}
        IN  /\ Cardinality(types) = Len(opp.opportunity_types)
            /\ types \subseteq {"upsell", "cross_sell", "fidelidade", "advogado_marca",
                                "satisfacao_excepcional"}
            /\ "upsell" \in types <=> UpsellCount > 0
            /\ "cross_sell" \in types <=> CrossSellCount > 0
            /\ "fidelidade" \in types <=> LoyaltyCount > 0
            /\ "advogado_marca" \in types <=> AdvocateCount > 0
            /\ "satisfacao_excepcional" \in types <=> ExceptionalCount > 0

\* a negative review with rating 1 and no opportunity still lists its types
C20_Witness ==
    /\ Called("find_opportunities")
    /\ HasText
    /\ sentiment = "negativo"
    /\ rating = 1
    /\ opp.opportunity_level = "sem_oportunidade"
    /\ opp.opportunity_types = <<"fidelidade", "advogado_marca", "satisfacao_excepcional">>

\* the whitespace-delimited tokens of the text clean_text returned
Tokens == {split(cleaned.value)[i] : i \in DOMAIN split(cleaned.value)}

\* C17: the text clean_text returns has no token that starts with 'http://',
\* 'https://' or 'www.' and no token that contains '@', whatever the input.
C17_NoUrlOrEmail ==
    Called("clean_text") /\ ~cleaned.raised =>
        \A token \in Tokens :
            /\ ~StartsAt(token, 1, <<"h","t","t","p",":","/","/">>)
            /\ ~StartsAt(token, 1, <<"h","t","t","p","s",":","/","/">>)
            /\ ~StartsAt(token, 1, <<"w","w","w",".">>)
            /\ ~Contains(token, <<"@">>)

\* C18: no token of the text clean_text returns is a key of CONTRACTIONS,
\* whatever the input.
C18_ContractionsExpanded ==
    Called("clean_text") /\ ~cleaned.raised =>
        \A token \in Tokens : \A i \in DOMAIN CONTRACTIONS : CONTRACTIONS[i].word # token

\* C13: with the rating and the sentiment fixed, a text that holds one more
\* high-severity phrase than another, and every phrase of the other, has a
\* churn_score that is not lower: it grows, or stays at the clamp of 100.
C13_ChurnScoreMonotone ==
    Called("detect_churn_risk") /\ prev # Unset =>
        /\ churn.churn_score >= prev.churn_score
        /\ churn.churn_score = prev.churn_score => churn.churn_score = 1000
        /\ churn.signals_detected.alta_gravidade > prev.signals_detected.alta_gravidade
        /\ churn.signals_detected.media_gravidade >= prev.signals_detected.media_gravidade
        /\ churn.signals_detected.baixa_gravidade >= prev.signals_detected.baixa_gravidade

\* a fourth high-severity phrase leaves a score of 100 at 100
C13_Witness ==
    /\ Called("detect_churn_risk")
    /\ prev # Unset
    /\ rating = 4
    /\ prev.signals_detected.alta_gravidade = 3
    /\ prev.churn_score = 900
    /\ churn.signals_detected.alta_gravidade = 4
    /\ churn.churn_score = 1000

\* the rows of the dataset that get_top_opportunities left out
Excluded == {i \in DOMAIN df : \A k \in DOMAIN top : top[k].index # i}

\* the opportunity_score of the i-th row of the dataset
ScoreOf(i) == OpportunityRow(df[i]).opportunity_score

\* C15: get_top_opportunities(df, n) returns at most n rows, each a row of
\* the dataset with opportunity_score > 0, in non-increasing order of score;
\* no row left out with a score > 0 has a higher score than a row returned;
\* of rows of equal score the earlier one of the dataset is returned first
\* and listed first.
C15_TopOpportunities ==
    Called("get_top_opportunities") =>
        /\ Len(top) <= top_n
        /\ \A k \in DOMAIN top :
               /\ top[k].index \in DOMAIN df
               /\ top[k].opportunity_score = ScoreOf(top[k].index)
               /\ top[k].opportunity_score > 0
               /\ top[k].avaliacao = df[top[k].index].avaliacao
        /\ \A k, l \in DOMAIN top : k < l =>
               /\ top[k].index # top[l].index
               /\ top[k].opportunity_score >= top[l].opportunity_score
               /\ top[k].opportunity_score = top[l].opportunity_score
                      => top[k].index < top[l].index
        /\ \A i \in Excluded : ScoreOf(i) > 0 =>
               /\ Len(top) = top_n
               /\ \A k \in DOMAIN top :
                      /\ ScoreOf(i) <= top[k].opportunity_score
                      /\ ScoreOf(i) = top[k].opportunity_score => top[k].index < i

\* of two rows of equal score and n = 1 the first is returned, the second left out
C15_Witness ==
    /\ Called("get_top_opportunities")
    /\ top_n = 1
    /\ Len(df) = 2
    /\ df[1] # df[2]
    /\ ScoreOf(1) = ScoreOf(2)
    /\ ScoreOf(2) > 0
    /\ Len(top) = 1
    /\ top[1].index = 1

\* C16: on an empty dataset get_churn_statistics and
\* get_opportunity_statistics raise nothing: the total is 0, every count is
\* 0 and every mean is NaN.
C16_EmptyDataset ==
    Called("get_churn_statistics") /\ Called("get_opportunity_statistics") /\ df = <<>> =>
        /\ churn_stats = [total_avaliacoes |-> 0,
                          alto_risco |-> 0, medio_risco |-> 0, baixo_risco |-> 0,
                          sem_risco |-> 0,
                          percentual_alto_risco |-> PyNaN,
                          percentual_medio_risco |-> PyNaN,
                          score_medio |-> PyNaN]
        /\ opp_stats = [total_avaliacoes |-> 0,
                        alta_oportunidade |-> 0, media_oportunidade |-> 0,
                        baixa_oportunidade |-> 0, sem_oportunidade |-> 0,
                        percentual_alta_oportunidade |-> PyNaN,
                        advogados_marca |-> 0, clientes_fieis |-> 0,
                        score_medio |-> PyNaN]

\* both statistics were taken on the empty dataset
C16_Witness ==
    /\ Called("get_churn_statistics")
    /\ Called("get_opportunity_statistics")
    /\ df = <<>>
    /\ churn_stats.total_avaliacoes = 0
    /\ opp_stats.score_medio = PyNaN

\* C19: whatever the order in which the rows are scored, the statistics
\* reduced from the results are those of the sequential pass over the
\* dataset: same total, same counts per level, same means.
C19_OrderIndependent ==
    batch # Unset =>
        /\ batch.churn = get_churn_statistics(df)
        /\ batch.opp = get_opportunity_statistics(df)

\* the second row was scored before the first and the scores differ
C19_Witness ==
    /\ batch # Unset
    /\ Len(df) = 2
    /\ scored[1].index = 2
    /\ scored[2].index = 1
    /\ scored[1].churn.churn_score # scored[2].churn.churn_score
    /\ scored[1].opp.opportunity_score # scored[2].opp.opportunity_score

\* C23: every row of the dataset is counted in exactly one level: the four
\* risk-level counts of get_churn_statistics sum to its total_avaliacoes,
\* the number of rows, and so do the four opportunity-level counts of
\* get_opportunity_statistics.
C23_LevelsPartition ==
    /\ Called("get_churn_statistics") =>
           /\ churn_stats.total_avaliacoes = Len(df)
           /\ churn_stats.alto_risco + churn_stats.medio_risco + churn_stats.baixo_risco
                  + churn_stats.sem_risco = churn_stats.total_avaliacoes
    /\ Called("get_opportunity_statistics") =>
           /\ opp_stats.total_avaliacoes = Len(df)
           /\ opp_stats.alta_oportunidade + opp_stats.media_oportunidade
                  + opp_stats.baixa_oportunidade + opp_stats.sem_oportunidade
                  = opp_stats.total_avaliacoes

\* a dataset of a row without text and a row of high risk
C23_Witness ==
    /\ Called("get_churn_statistics")
    /\ Called("get_opportunity_statistics")
    /\ Len(df) = 2
    /\ df[1].avaliacao = PyNone
    /\ churn_stats.sem_risco = 1
    /\ churn_stats.alto_risco = 1
    /\ opp_stats.sem_oportunidade = 2

\* C24: with a sentiment of 'positivo' or 'negativo', a review that is an
\* opportunity (level other than sem_oportunidade) has the risk level
\* sem_risco, so is_high_value and is_critical are never both true.
C24_RiskOrOpportunity ==
    /\ Called("detect_churn_risk")
    /\ Called("find_opportunities")
    /\ sentiment \in {"positivo", "negativo"}
    => /\ opp.opportunity_level # "sem_oportunidade" => churn.risk_level = "sem_risco"
       /\ ~(opp.is_high_value /\ churn.is_critical)

\* a positive review of rating 4 with a churn phrase and an opportunity phrase
C24_Witness ==
    /\ Called("detect_churn_risk")
    /\ Called("find_opportunities")
    /\ sentiment = "positivo"
    /\ rating = 4
    /\ churn.churn_score > 0
    /\ opp.opportunity_level = "media_oportunidade"
    /\ churn.risk_level = "sem_risco"

\* C25: with a rating <= 2 detect_churn_risk never returns medio_risco,
\* whatever the text and the sentiment.
C25_NoMediumForLowRating ==
    Called("detect_churn_risk") /\ rating <= 2 => churn.risk_level # "medio_risco"

\* rating 2 and a score of 22.5, which is medium by the score alone, is high
C25_Witness ==
    /\ Called("detect_churn_risk")
    /\ HasText
    /\ rating = 2
    /\ churn.churn_score = 225
    /\ churn.risk_level = "alto_risco"

\* C26: for a non-empty str text and a rating <= 3 detect_churn_risk never
\* returns sem_risco, whatever the sentiment, a text without churn phrase
\* included.
C26_NoNoneForLowRating ==
    Called("detect_churn_risk") /\ HasText /\ rating <= 3 => churn.risk_level # "sem_risco"

\* a positive text of rating 3 without churn phrase is a low risk
C26_Witness ==
    /\ Called("detect_churn_risk")
    /\ HasText
    /\ rating = 3
    /\ sentiment = "positivo"
    /\ churn.churn_score = 0
    /\ churn.risk_level = "baixo_risco"

\* C27: main_reasons never lists a phrase twice.
C27_NoDuplicateReason ==
    Called("detect_churn_risk") =>
        \A i, j \in DOMAIN churn.main_reasons :
            i # j => churn.main_reasons[i] # churn.main_reasons[j]

\* C30: the first clamp changes nothing: churn_score = min(100, f * raw) with
\* raw = 30h + 15m + 5l not clamped and f = 1.5 for rating <= 2, 1.2 for
\* rating 3 and 1.0 otherwise, which is the clamping of the opportunity score.
C30_FirstClampRedundant ==
    Called("detect_churn_risk") /\ HasText =>
        LET raw == 30 * HighCount + 15 * MediumCount + 5 * LowCount
            f == IF rating <= 2 THEN 15 ELSE IF rating = 3 THEN 12 ELSE 10
        IN  churn.churn_score = Min(raw * f, 1000)

\* a raw score above 100, where the first clamp acts, with rating 3
C30_Witness ==
    /\ Called("detect_churn_risk")
    /\ HasText
    /\ 30 * HighCount + 15 * MediumCount + 5 * LowCount > 100
    /\ rating = 3
    /\ churn.churn_score = 1000

\* C28: customer_profile, opportunity_types and signals_detected depend on
\* the text only: two calls of find_opportunities with the same text and any
\* two pairs of rating and sentiment return the same profile, types and counts.
C28_ProfileFromTextOnly ==
    Called("find_opportunities") /\ prev # Unset =>
        /\ opp.customer_profile = prev.customer_profile
        /\ opp.opportunity_types = prev.opportunity_types
        /\ opp.signals_detected = prev.signals_detected

\* a text of high opportunity with rating 5 and positive sentiment is still a
\* brand advocate with rating 1 and negative sentiment, and no opportunity
C28_Witness ==
    /\ Called("find_opportunities")
    /\ prev # Unset
    /\ HasText
    /\ prev.opportunity_level = "alta_oportunidade"
    /\ rating = 1
    /\ sentiment = "negativo"
    /\ opp.opportunity_level = "sem_oportunidade"
    /\ opp.customer_profile = "advogado_marca"

\* the risk levels in their order
Rank(level) ==
    CASE level = "sem_risco" -> 0
      [] level = "baixo_risco" -> 1
      [] level = "medio_risco" -> 2
      [] level = "alto_risco" -> 3

\* every tier count of a is at least that of b
Dominates(a, b) ==
    /\ a.alta_gravidade >= b.alta_gravidade
    /\ a.media_gravidade >= b.media_gravidade
    /\ a.baixa_gravidade >= b.baixa_gravidade

\* the levels of the two calls are ordered as their counts are
LevelsFollowCounts ==
    /\ Dominates(churn.signals_detected, prev.signals_detected)
           => Rank(churn.risk_level) >= Rank(prev.risk_level)
    /\ Dominates(prev.signals_detected, churn.signals_detected)
           => Rank(prev.risk_level) >= Rank(churn.risk_level)

\* C29 as stated: with the rating and the sentiment fixed, a text whose tier
\* counts are all at least those of another text has a risk level that is
\* not lower, for any two texts.
C29_LevelMonotone ==
    Called("detect_churn_risk") /\ prev # Unset => LevelsFollowCounts

\* C29: with the rating and the sentiment fixed, of two non-empty str texts
\* the one whose tier counts are all at least those of the other has a risk
\* level that is not lower.
C29_LevelMonotoneNonEmpty ==
    Called("detect_churn_risk") /\ prev # Unset /\ Len(prev_text.chars) > 0 /\ HasText
        => LevelsFollowCounts

\* a text of low risk grows by a phrase and is of high risk
C29_Witness ==
    /\ Called("detect_churn_risk")
    /\ prev # Unset
    /\ Len(prev_text.chars) > 0
    /\ Dominates(churn.signals_detected, prev.signals_detected)
    /\ churn.signals_detected # prev.signals_detected
    /\ prev.risk_level = "baixo_risco"
    /\ churn.risk_level = "alto_risco"

\* C22: each of the three scorers gets the cleaned text: the category, the
\* churn record and the opportunity record of a raw review are those of
\* clean_text(raw).
C22_ScorersGetCleanedText ==
    Called("process_data") /\ ~cleaned.raised =>
        /\ cat = extract_category(PyStr(cleaned.value))
        /\ Called("detect_churn_risk")
               => churn = detect_churn_risk(PyStr(cleaned.value), rating, sentiment)
        /\ Called("find_opportunities")
               => opp = find_opportunities(PyStr(cleaned.value), rating, sentiment)

\* the record a call is to return for its arguments
Expected(call) ==
    IF call.op = "detect_churn_risk" THEN ChurnRow(call.row) ELSE OpportunityRow(call.row)

\* C21: every call returns a record of its own, with its own lists and
\* dicts: when the caller changes the record of one call, the record of any
\* call made before or after it reads as it was returned, and no keyword
\* table changes.
C21_FreshRecords ==
    /\ \A k \in DOMAIN calls :
           k # mutated => Deref(heap, calls[k].id) = Expected(calls[k])
    /\ SubSeq(heap, 1, Len(TableObjects)) = TableObjects

\* two fallback records held together: the list of the first has been
\* appended to, the list of the second is empty
C21_Witness ==
    /\ Len(calls) = 2
    /\ mutated = 1
    /\ calls[1].row.avaliacao = PyNone
    /\ calls[2].row.avaliacao = PyNone
    /\ calls[1].op = "detect_churn_risk"
    /\ calls[2].op = "detect_churn_risk"
    /\ Deref(heap, calls[1].id).main_reasons = <<"x">>
    /\ Deref(heap, calls[2].id).main_reasons = <<>>

====
